---------------------------- MODULE Spec2Model ----------------------------
(***************************************************************************)
(* Model of the LRU engine of 0studio/lru (lru_cache_int.go; the engines   *)
(* for the other key types are textual copies of it) and of the value      *)
(* capabilities of lru_cache_interface.go.                                 *)
(*                                                                         *)
(* Every public operation of the engine runs with lru.mu held from its     *)
(* first statement to its return, so one operation is one action.  The     *)
(* recency list is a sequence of entries, most recently used first.  A     *)
(* list element is allocated by addNew only for a key that the table does  *)
(* not index, so an element is named by the key of its entry and the table *)
(* (map[int]*list.Element) is the set of keys that it maps to an element.  *)
(***************************************************************************)
EXTENDS Integers, Sequences, FiniteSets

\* ---- bounds of the model ------------------------------------------------
NumKeys == 3
NumValues == 3
MaxCap == 1
NegCap == 1
NegSums == 2

KeyIds == 1..NumKeys
ValueIds == 1..NumValues
Capacities == (0 - NegCap)..MaxCap

\* ---- lru_cache_interface.go ---------------------------------------------
PURGE_REASON_CACHEFULL == 0
PURGE_REASON_DELETE == 1
PURGE_REASON_UPDATE == 2
PURGE_REASON_CLEAR_ALL == 3

\* The values of the model, by the optional interfaces they implement:
\*   1          OnPurger only            (PurgeCacheValueInt64 of the tests)
\*   2          OnPurger and SizeAware,  Size() = 2
\*   3          SizeAware only,          Size() = 0  (CacheValue{0} of the tests)
\*   4          neither                  (the int of TestInt64OnMiss)
\*   5, 6, ...  OnPurger and SizeAware,  Size() = -1 (Size() returns a Go int)
OnPurger(c) == c \notin {3, 4}
SizeAware(x) == x \notin {1, 4}

\* What Size() reports for a SizeAware value when the value is made.
ValueSize(x) == CASE x = 2 -> 2
                  [] x = 3 -> 0
                  [] OTHER -> 0 - 1

\* safeOnPurge(c, why), appended to the log of the calls made by the running
\* operation; c.OnPurge(why) itself runs only if c implements OnPurger.
safeOnPurge(log, c, why) ==
    Append(log, [value |-> c, why |-> why, delivered |-> OnPurger(c)])

\* ---- the state of one engine -------------------------------------------
VARIABLES
    list,       \* lru.list: sequence of entries [key, value, size], MRU first
    table,      \* lru.table: the set of keys it maps to an element
    size,       \* lru.size
    capacity,   \* lru.capacity
    onMiss,     \* lru.onMiss # nil
    purged,     \* safeOnPurge calls made by the last operation, in call order
    last,       \* the last operation: its name, arguments and results
    panicked,   \* the last operation dereferenced a nil *list.Element
    reports,    \* reports[x]: what Size() of the SizeAware value x returns now
    demo,       \* the program of the README: the keys it has Set and the
                \* purges its values have printed, both in order
    asked,      \* what the one caller of a router has asked for: the arguments
                \* of NewShardLRUCacheKeyUint64, and the capacity last given to
                \* SetCapacity of the router
    snapshot,   \* the slice the last Keys(), Values() or Items() returned,
                \* and which of them returned it
    cachelist,  \* ShardLRUCacheKeyUint64.cachelist: the engines of a router
    mu,         \* mu[e]: the thread that holds the lock of engine e, or 0
    pc          \* pc[t]: the call thread t is in and its position in it

vars == <<list, table, size, capacity, onMiss, purged, last, panicked,
          reports, demo, asked, snapshot, cachelist, mu, pc>>

\* The one engine used on its own, by one caller at a time, the slice this
\* caller holds and the sizes the values report.
engine == <<list, table, size, capacity, onMiss, purged, last, snapshot,
            reports, demo, asked>>
\* The router, its engines and the threads that call it.
router == <<cachelist, mu, pc>>
\* What the operations of the one engine leave alone.
outside == <<snapshot, reports, demo, asked, router>>

\* getSize(x) calls x.Size() if x implements SizeAware.
getSize(x) == IF SizeAware(x) THEN reports[x] ELSE 1

NoKey == 0
NoValue == 0
\* The program of the README has not started.
NoDemo == [sets |-> <<>>, purges |-> <<>>]
\* No router with one caller.
NoRouter == [shardCount |-> 0, capacity |-> 0, by |-> "none"]
\* The caller holds no slice yet.
NoSlice == [of |-> "none", slice |-> <<>>]

\* ---- container/list, as used by the engine -------------------------------
\* Positions of the elements whose entry has key k.
Positions(l, k) == {i \in 1..Len(l) : l[i].key = k}

\* The element table[k] points to, as a position of the list (0: not in it).
ElementOf(l, k) == IF Positions(l, k) = {} THEN 0
                   ELSE CHOOSE i \in Positions(l, k) : \A j \in Positions(l, k) : i <= j

RemoveAt(l, i) == SubSeq(l, 1, i - 1) \o SubSeq(l, i + 1, Len(l))

\* list.Remove(element): no effect on an element that is not in the list.
ListRemove(l, k) == IF ElementOf(l, k) = 0 THEN l ELSE RemoveAt(l, ElementOf(l, k))

\* A faulty moveToFront: exchanges the element with the front element.
moveToFront_Swap(l, k) ==
    IF ElementOf(l, k) = 0 THEN l
    ELSE [l EXCEPT ![1] = l[ElementOf(l, k)], ![ElementOf(l, k)] = l[1]]

\* list.MoveToFront(element)
moveToFront(l, k) ==
    IF ElementOf(l, k) = 0 THEN l
    ELSE <<l[ElementOf(l, k)]>> \o RemoveAt(l, ElementOf(l, k))

\* ---- the unexported methods, on a record of the fields they touch -------
Engine == [list |-> list, table |-> table, size |-> size,
           capacity |-> capacity, purged |-> <<>>, panic |-> FALSE]

\* A faulty checkCapacity: "if" for "for", at most one eviction.
checkCapacity_Once(s) ==
    IF s.size > s.capacity /\ s.list # <<>>
    THEN LET delValue == s.list[Len(s.list)] IN
         [s EXCEPT
             !.list = SubSeq(s.list, 1, Len(s.list) - 1),
             !.table = @ \ {delValue.key},
             !.size = @ - delValue.size,
             !.purged = safeOnPurge(@, delValue.value, PURGE_REASON_CACHEFULL)]
    ELSE s

\* A faulty checkCapacity: evicts lru.list.Front() instead of Back().
RECURSIVE checkCapacity_Front(_)
checkCapacity_Front(s) ==
    IF s.size > s.capacity
    THEN IF s.list = <<>>
         THEN [s EXCEPT !.panic = TRUE]
         ELSE LET delValue == s.list[1] IN
              checkCapacity_Front([s EXCEPT
                  !.list = Tail(s.list),
                  !.table = @ \ {delValue.key},
                  !.size = @ - delValue.size,
                  !.purged = safeOnPurge(@, delValue.value, PURGE_REASON_CACHEFULL)])
    ELSE s

RECURSIVE checkCapacity(_)
checkCapacity(s) ==
    IF s.size > s.capacity
    THEN IF s.list = <<>>
         THEN [s EXCEPT !.panic = TRUE]   \* lru.list.Back() = nil, delElem.Value
         ELSE LET delValue == s.list[Len(s.list)] IN
              checkCapacity([s EXCEPT
                  !.list = SubSeq(s.list, 1, Len(s.list) - 1),
                  !.table = @ \ {delValue.key},
                  !.size = @ - delValue.size,
                  !.purged = safeOnPurge(@, delValue.value, PURGE_REASON_CACHEFULL)])
    ELSE s

\* A faulty addNew: the new element is not entered in the table.
addNew_NoIndex(s, k, value) ==
    LET newEntry == [key |-> k, value |-> value, size |-> getSize(value)] IN
    checkCapacity([s EXCEPT
        !.list = <<newEntry>> \o @,
        !.size = @ + newEntry.size])

addNew(s, k, value) ==
    LET newEntry == [key |-> k, value |-> value, size |-> getSize(value)] IN
    checkCapacity([s EXCEPT
        !.list = <<newEntry>> \o @,
        !.table = @ \cup {k},
        !.size = @ + newEntry.size])

\* A faulty updateInplace: adds the new size instead of the difference.
updateInplace_AddsSize(s, k, value) ==
    LET i == ElementOf(s.list, k)
        valueSize == getSize(value)
        upd == [s.list EXCEPT ![i].value = value, ![i].size = valueSize]
    IN  checkCapacity([s EXCEPT
            !.purged = safeOnPurge(@, s.list[i].value, PURGE_REASON_UPDATE),
            !.list = moveToFront(upd, k),
            !.size = @ + valueSize])

\* A faulty updateInplace: notifies the new value instead of the old one.
updateInplace_PurgesNew(s, k, value) ==
    LET i == ElementOf(s.list, k)
        valueSize == getSize(value)
        sizeDiff == valueSize - s.list[i].size
        upd == [s.list EXCEPT ![i].value = value, ![i].size = valueSize]
    IN  checkCapacity([s EXCEPT
            !.purged = safeOnPurge(@, value, PURGE_REASON_UPDATE),
            !.list = moveToFront(upd, k),
            !.size = @ + sizeDiff])

updateInplace(s, k, value) ==
    LET i == ElementOf(s.list, k)
        valueSize == getSize(value)
        sizeDiff == valueSize - s.list[i].size
        upd == [s.list EXCEPT ![i].value = value, ![i].size = valueSize]
    IN  checkCapacity([s EXCEPT
            !.purged = safeOnPurge(@, s.list[i].value, PURGE_REASON_UPDATE),
            !.list = moveToFront(upd, k),
            !.size = @ + sizeDiff])

set(s, k, value) ==
    IF k \in s.table THEN updateInplace(s, k, value) ELSE addNew(s, k, value)

\* Writes the fields back when the operation returns (or panics).
Commit(s) ==
    /\ list' = s.list
    /\ table' = s.table
    /\ size' = s.size
    /\ capacity' = s.capacity
    /\ purged' = s.purged
    /\ panicked' = s.panic

\* The record of an operation: its name, its key, its value (the argument,
\* or the value Get returns), whether the key was indexed when it started,
\* the boolean it returns, and whether it is a SetIfAbsent that follows a
\* SetIfAbsent of the same key which did not find the key.
Op(name, k, v, hit, ok) ==
    [op |-> name, k |-> k, v |-> v, hit |-> hit, ok |-> ok,
     again |-> /\ name = "SetIfAbsent" /\ last.op = "SetIfAbsent"
               /\ k = last.k /\ ~last.hit]

\* ---- NewLRUCacheInt -------------------------------------------------------
Init ==
    /\ list = <<>>
    /\ table = {}
    /\ size = 0
    /\ capacity \in Capacities
    /\ onMiss = FALSE
    /\ purged = <<>>
    /\ last = [op |-> "New", k |-> NoKey, v |-> NoValue, hit |-> FALSE,
               ok |-> FALSE, again |-> FALSE]
    /\ panicked = FALSE
    /\ reports = [x \in ValueIds |-> ValueSize(x)]
    /\ demo = NoDemo
    /\ asked = NoRouter
    /\ snapshot = NoSlice
    /\ cachelist = <<>>
    /\ mu = <<>>
    /\ pc = <<>>

\* ---- the public operations ------------------------------------------------
\* A faulty GetHit: returns the value without moving the element.
GetHit_NoPromote(k) ==
    /\ ~panicked
    /\ k \in table
    /\ Commit(Engine)
    /\ last' = Op("Get", k, list[ElementOf(list, k)].value, TRUE, TRUE)
    /\ UNCHANGED <<onMiss, outside>>

\* Get on an indexed key.
GetHit(k) ==
    /\ ~panicked
    /\ k \in table
    /\ Commit([Engine EXCEPT !.list = moveToFront(list, k)])
    /\ last' = Op("Get", k, list[ElementOf(list, k)].value, TRUE, TRUE)
    /\ UNCHANGED <<onMiss, outside>>

\* A faulty GetMiss: stores a value for the key it did not find.
GetMiss_Stores(k) ==
    /\ ~panicked
    /\ k \notin table
    /\ ~onMiss
    /\ Commit(addNew(Engine, k, 1))
    /\ last' = Op("Get", k, NoValue, FALSE, FALSE)
    /\ UNCHANGED <<onMiss, outside>>

\* Get on a key that is not indexed, no loader registered.
GetMiss(k) ==
    /\ ~panicked
    /\ k \notin table
    /\ ~onMiss
    /\ Commit(Engine)
    /\ last' = Op("Get", k, NoValue, FALSE, FALSE)
    /\ UNCHANGED <<onMiss, outside>>

\* Get on a key that is not indexed, the loader returns (v, ok).
GetLoad(k, v, ok) ==
    /\ ~panicked
    /\ k \notin table
    /\ onMiss
    /\ Commit(IF ok THEN set(Engine, k, v) ELSE Engine)
    /\ last' = Op("Get", k, v, FALSE, ok)
    /\ UNCHANGED <<onMiss, outside>>

Get(k) ==
    \/ GetHit(k)
    \/ GetMiss(k)
    \/ \E v \in ValueIds, ok \in BOOLEAN : GetLoad(k, v, ok)

Set(k, value) ==
    /\ ~panicked
    /\ Commit(set(Engine, k, value))
    /\ last' = Op("Set", k, value, k \in table, TRUE)
    /\ UNCHANGED <<onMiss, outside>>

\* A faulty SetIfAbsent: sets the value also when the key is indexed.
SetIfAbsent_Overwrites(k, value) ==
    /\ ~panicked
    /\ Commit(set(Engine, k, value))
    /\ last' = Op("SetIfAbsent", k, value, k \in table, TRUE)
    /\ UNCHANGED <<onMiss, outside>>

SetIfAbsent(k, value) ==
    /\ ~panicked
    /\ Commit(IF k \in table
              THEN [Engine EXCEPT !.list = moveToFront(list, k)]
              ELSE addNew(Engine, k, value))
    /\ last' = Op("SetIfAbsent", k, value, k \in table, TRUE)
    /\ UNCHANGED <<onMiss, outside>>

\* A faulty Delete: no safeOnPurge call.
Delete_NoPurge(k) ==
    /\ ~panicked
    /\ IF k \notin table
       THEN Commit(Engine)
       ELSE LET e == list[ElementOf(list, k)] IN
            Commit([Engine EXCEPT
                !.list = ListRemove(list, k),
                !.table = @ \ {k},
                !.size = @ - e.size])
    /\ last' = Op("Delete", k, NoValue, k \in table, k \in table)
    /\ UNCHANGED <<onMiss, outside>>

\* A faulty Delete: lru.size is not reduced.
Delete_KeepsSize(k) ==
    /\ ~panicked
    /\ IF k \notin table
       THEN Commit(Engine)
       ELSE LET e == list[ElementOf(list, k)] IN
            Commit([Engine EXCEPT
                !.list = ListRemove(list, k),
                !.table = @ \ {k},
                !.purged = safeOnPurge(@, e.value, PURGE_REASON_DELETE)])
    /\ last' = Op("Delete", k, NoValue, k \in table, k \in table)
    /\ UNCHANGED <<onMiss, outside>>

\* A faulty Delete: subtracts what the value reports now, not the size
\* recorded in the entry.
Delete_AsksSize(k) ==
    /\ ~panicked
    /\ IF k \notin table
       THEN Commit(Engine)
       ELSE LET e == list[ElementOf(list, k)] IN
            Commit([Engine EXCEPT
                !.list = ListRemove(list, k),
                !.table = @ \ {k},
                !.size = @ - getSize(e.value),
                !.purged = safeOnPurge(@, e.value, PURGE_REASON_DELETE)])
    /\ last' = Op("Delete", k, NoValue, k \in table, k \in table)
    /\ UNCHANGED <<onMiss, outside>>

\* A faulty Delete: reports true also for a key that is not indexed.
Delete_AlwaysTrue(k) ==
    /\ ~panicked
    /\ IF k \notin table
       THEN Commit(Engine)
       ELSE LET e == list[ElementOf(list, k)] IN
            Commit([Engine EXCEPT
                !.list = ListRemove(list, k),
                !.table = @ \ {k},
                !.size = @ - e.size,
                !.purged = safeOnPurge(@, e.value, PURGE_REASON_DELETE)])
    /\ last' = Op("Delete", k, NoValue, k \in table, TRUE)
    /\ UNCHANGED <<onMiss, outside>>

Delete(k) ==
    /\ ~panicked
    /\ IF k \notin table
       THEN Commit(Engine)
       ELSE LET e == list[ElementOf(list, k)] IN
            Commit([Engine EXCEPT
                !.list = ListRemove(list, k),
                !.table = @ \ {k},
                !.size = @ - e.size,
                !.purged = safeOnPurge(@, e.value, PURGE_REASON_DELETE)])
    /\ last' = Op("Delete", k, NoValue, k \in table, k \in table)
    /\ UNCHANGED <<onMiss, outside>>

RECURSIVE ClearPurge(_, _)
ClearPurge(log, l) ==
    IF l = <<>> THEN log
    ELSE ClearPurge(safeOnPurge(log, Head(l).value, PURGE_REASON_CLEAR_ALL), Tail(l))

\* A faulty Clear: lru.list.Init() runs before the scan, which then finds
\* no element to notify.
Clear_InitFirst ==
    /\ ~panicked
    /\ Commit([Engine EXCEPT
           !.purged = ClearPurge(<<>>, <<>>),
           !.list = <<>>,
           !.table = {},
           !.size = 0])
    /\ last' = Op("Clear", NoKey, NoValue, FALSE, TRUE)
    /\ UNCHANGED <<onMiss, outside>>

Clear ==
    /\ ~panicked
    /\ Commit([Engine EXCEPT
           !.purged = ClearPurge(<<>>, list),
           !.list = <<>>,
           !.table = {},
           !.size = 0])
    /\ last' = Op("Clear", NoKey, NoValue, FALSE, TRUE)
    /\ UNCHANGED <<onMiss, outside>>

SetCapacity(c) ==
    /\ ~panicked
    /\ Commit(checkCapacity([Engine EXCEPT !.capacity = c]))
    /\ last' = Op("SetCapacity", NoKey, NoValue, FALSE, TRUE)
    /\ UNCHANGED <<onMiss, outside>>

OnMiss(h) ==
    /\ ~panicked
    /\ onMiss' = h
    /\ purged' = <<>>
    /\ last' = Op("OnMiss", NoKey, NoValue, FALSE, TRUE)
    /\ UNCHANGED <<list, table, size, capacity, panicked, outside>>

Next ==
    \/ \E k \in KeyIds : Get(k)
    \/ \E k \in KeyIds, v \in ValueIds : Set(k, v)
    \/ \E k \in KeyIds, v \in ValueIds : SetIfAbsent(k, v)
    \/ \E k \in KeyIds : Delete(k)
    \/ Clear
    \/ \E c \in Capacities : SetCapacity(c)
    \/ \E h \in BOOLEAN : OnMiss(h)

Spec == Init /\ [][Next]_vars

\* ---- the accessors ----------------------------------------------------------
\* ---- values that change their size -----------------------------------------
\* SizeAware asks for a constant size, "the cache does not expect objects to
\* change size while they are cached": a value x that does change reports n
\* from now on.
Resize(x, n) ==
    /\ ~panicked
    /\ SizeAware(x)
    /\ reports[x] # n
    /\ reports' = [reports EXCEPT ![x] = n]
    /\ last' = Op("Resize", NoKey, x, FALSE, TRUE)
    /\ purged' = <<>>
    /\ UNCHANGED <<list, table, size, capacity, onMiss, panicked, snapshot,
                   demo, asked, router>>

\* One engine that holds a value without Size() and a value whose Size()
\* changes.
SizesValues == {1, 2}
ReportedSizes == 1..(MaxCap + 1)

NextSizes ==
    \/ \E k \in KeyIds : GetHit(k) \/ GetMiss(k)
    \/ \E k \in KeyIds, v \in SizesValues, ok \in BOOLEAN : GetLoad(k, v, ok)
    \/ \E k \in KeyIds, v \in SizesValues : Set(k, v)
    \/ \E k \in KeyIds, v \in SizesValues : SetIfAbsent(k, v)
    \/ \E k \in KeyIds : Delete(k)
    \/ Clear
    \/ \E c \in Capacities : SetCapacity(c)
    \/ \E h \in BOOLEAN : OnMiss(h)
    \/ \E x \in SizesValues, n \in ReportedSizes : Resize(x, n)

SpecSizes == Init /\ [][NextSizes]_vars

\* ---- the program of the README ---------------------------------------------
\* c := NewLRUCache...(capacity); for i := ... { c.Set(key i, cacheableInt(i)) }
\* with keys that are all different; cacheableInt has OnPurge, which prints,
\* and no Size().
DemoKeys == 1..(NumKeys + 1)
DemoCapacities == 0..(MaxCap + 2)
DemoValue == 1

InitDemo ==
    /\ list = <<>>
    /\ table = {}
    /\ size = 0
    /\ capacity \in DemoCapacities
    /\ onMiss = FALSE
    /\ purged = <<>>
    /\ last = [op |-> "New", k |-> NoKey, v |-> NoValue, hit |-> FALSE,
               ok |-> FALSE, again |-> FALSE]
    /\ panicked = FALSE
    /\ reports = [x \in ValueIds |-> ValueSize(x)]
    /\ demo = NoDemo
    /\ asked = NoRouter
    /\ snapshot = NoSlice
    /\ cachelist = <<>>
    /\ mu = <<>>
    /\ pc = <<>>

\* One turn of the loop: c.Set(k, DemoValue); the OnPurge calls it makes
\* print.
DemoSet(k) ==
    /\ ~panicked
    /\ k \notin {demo.sets[i] : i \in 1..Len(demo.sets)}
    /\ Commit(set(Engine, k, DemoValue))
    /\ last' = Op("Set", k, DemoValue, k \in table, TRUE)
    /\ demo' = [sets |-> Append(demo.sets, k),
                purges |-> demo.purges
                             \o SelectSeq(purged', LAMBDA n : n.delivered)]
    /\ UNCHANGED <<onMiss, snapshot, reports, asked, router>>

NextDemo == \E k \in DemoKeys : DemoSet(k)

SpecDemo == InitDemo /\ [][NextDemo]_vars

\* A faulty Keys: walks the list from Back() with Prev().
Keys_FromBack == [i \in 1..Len(list) |-> list[Len(list) + 1 - i].key]

\* What Keys(), Values(), Items() and Length() return: a new slice filled
\* from Front() with Next().
Keys == [i \in 1..Len(list) |-> list[i].key]
Values == [i \in 1..Len(list) |-> list[i].value]
Items == [i \in 1..Len(list) |-> [Key |-> list[i].key, Value |-> list[i].value]]
Length == Len(list)

\* A call of an accessor: the caller keeps the slice it returns.
Returns(name, slice) ==
    /\ ~panicked
    /\ snapshot' = [of |-> name, slice |-> slice]
    /\ Commit(Engine)
    /\ last' = Op(name, NoKey, NoValue, FALSE, TRUE)
    /\ UNCHANGED <<onMiss, reports, demo, asked, router>>

CallKeys == Returns("Keys", Keys)
CallValues == Returns("Values", Values)
CallItems == Returns("Items", Items)

\* One engine whose caller also takes snapshots of it.  The engine is made
\* with room for more than one entry and the values stored have size 1, so
\* that the order of the entries held is that of their last uses.
SnapshotValues == {1}
SnapshotCapacities == 0..(MaxCap + 1)

InitSnapshots ==
    /\ list = <<>>
    /\ table = {}
    /\ size = 0
    /\ capacity = MaxCap + 1
    /\ onMiss = FALSE
    /\ purged = <<>>
    /\ last = [op |-> "New", k |-> NoKey, v |-> NoValue, hit |-> FALSE,
               ok |-> FALSE, again |-> FALSE]
    /\ panicked = FALSE
    /\ reports = [x \in ValueIds |-> ValueSize(x)]
    /\ demo = NoDemo
    /\ asked = NoRouter
    /\ snapshot = NoSlice
    /\ cachelist = <<>>
    /\ mu = <<>>
    /\ pc = <<>>

NextSnapshots ==
    \/ \E k \in KeyIds : GetHit(k) \/ GetMiss(k)
    \/ \E k \in KeyIds, v \in SnapshotValues, ok \in BOOLEAN : GetLoad(k, v, ok)
    \/ \E k \in KeyIds, v \in SnapshotValues : Set(k, v)
    \/ \E k \in KeyIds, v \in SnapshotValues : SetIfAbsent(k, v)
    \/ \E k \in KeyIds : Delete(k)
    \/ Clear
    \/ \E c \in SnapshotCapacities : SetCapacity(c)
    \/ \E h \in BOOLEAN : OnMiss(h)
    \/ CallKeys
    \/ CallValues
    \/ CallItems

SpecSnapshots == InitSnapshots /\ [][NextSnapshots]_vars

\* ---- auxiliary definitions of the properties ------------------------------
RECURSIVE SumSizes(_)
SumSizes(l) == IF l = <<>> THEN 0 ELSE Head(l).size + SumSizes(Tail(l))

KeysIn(l) == {l[i].key : i \in 1..Len(l)}
Without(l, k) == SelectSeq(l, LAMBDA e : e.key # k)
IsPrefix(p, l) == Len(p) <= Len(l) /\ SubSeq(l, 1, Len(p)) = p
Mutators == {"Get", "Set", "SetIfAbsent", "Delete", "Clear", "SetCapacity"}

TypeOK ==
    /\ table \subseteq KeyIds
    /\ size \in Int
    /\ capacity \in Capacities
    /\ onMiss \in BOOLEAN
    /\ panicked \in BOOLEAN

\* ==========================================================================
\* C1: in every reachable state the running counter size equals the sum of
\* the sizes recorded in the entries the list holds.
C1_SizeIsSum == size = SumSizes(list)

\* A Set on an indexed key has replaced a value of size 0 by one of size 1,
\* and other entries are held.
C1_Witness ==
    /\ last.op = "Set" /\ last.hit
    /\ purged = <<[value |-> 3, why |-> PURGE_REASON_UPDATE, delivered |-> FALSE]>>
    /\ Len(list) >= 2
    /\ list[1].key = last.k /\ list[1].size = 1
    /\ size = 1

\* ==========================================================================
\* C2 (as claimed): whenever a public mutating operation has completed,
\* size <= capacity.
C2_AsClaimed == (last.op \in Mutators /\ ~panicked) => size <= capacity

\* C2 (amended): while the capacity and the recorded sizes are not negative,
\* every operation that starts with size <= capacity ends with
\* size <= capacity (the engine starts empty, so with a capacity that is
\* never negative and values of non-negative sizes the bound holds between
\* any two operations).
C2_NonNegative ==
    capacity >= 0 /\ \A i \in 1..Len(list) : list[i].size >= 0

C2_SizeWithinCapacity ==
    [][(C2_NonNegative /\ size <= capacity /\ C2_NonNegative')
           => size' <= capacity']_vars

\* An insertion has evicted to get back under the capacity.
C2_Witness ==
    /\ last.op \in {"Set", "SetIfAbsent", "Get"}
    /\ purged # <<>>
    /\ purged[Len(purged)].why = PURGE_REASON_CACHEFULL
    /\ list # <<>>
    /\ size = capacity

\* ==========================================================================
\* C3: the table and the list are in bijection: the indexed keys are the
\* keys of the list elements, no key occurs twice in the list, and Length()
\* is the number of indexed keys.
C3_Bijection ==
    /\ table = KeysIn(list)
    /\ \A i, j \in 1..Len(list) : list[i].key = list[j].key => i = j
    /\ Length = Cardinality(table)

\* Entries have been removed by an eviction and others are still held.
C3_Witness ==
    /\ last.op = "SetCapacity"
    /\ purged # <<>>
    /\ Len(list) >= 1
    /\ Cardinality(table) = Len(list)
\* ---- auxiliary definitions of the properties about one operation ---------
Note(c, why) == [value |-> c, why |-> why, delivered |-> OnPurger(c)]
Reverse(l) == [i \in 1..Len(l) |-> l[Len(l) + 1 - i]]
\* The calls of the log made with reason why.
Calls(log, why) == SelectSeq(log, LAMBDA n : n.why = why)
\* The entry of key k in list l (k is the key of one of its entries).
EntryOf(l, k) == l[CHOOSE i \in 1..Len(l) : l[i].key = k]

\* The step is an operation that stores its value: a Set, a SetIfAbsent of a
\* key that is not indexed, or a Get whose loader reports (v, true).
Stores ==
    \/ last'.op = "Set"
    \/ last'.op = "SetIfAbsent" /\ ~last'.hit
    \/ last'.op = "Get" /\ ~last'.hit /\ last'.ok
\* The recency order right after the value is stored, before any eviction.
Stored ==
    <<[key |-> last'.k, value |-> last'.v, size |-> getSize(last'.v)]>>
        \o Without(list, last'.k)

\* ==========================================================================
\* C4 (as claimed): after a Get(k) or a Set(k, v) of a key k that was indexed
\* when the call started has returned, k is the first element of Keys().
C4_AsClaimed ==
    (last.op \in {"Get", "Set"} /\ last.hit /\ ~panicked)
        => (Keys # <<>> /\ Keys[1] = last.k)

\* C4 (amended): the same for Get(k), and for Set(k, v) when the size of v
\* does not exceed the capacity.
C4_RecencyLaw ==
    (/\ last.op \in {"Get", "Set"}
     /\ last.hit
     /\ last.op = "Set" => getSize(last.v) <= capacity)
        => (Keys # <<>> /\ Keys[1] = last.k)

\* A Set on an indexed key has promoted it over the entries still held.
C4_Witness ==
    /\ last.op = "Set" /\ last.hit
    /\ Len(list) = 3
    /\ Keys[1] = last.k
    /\ list[1].value = last.v

\* ==========================================================================
\* C5 (as claimed): an operation that stores a value removes entries only
\* from the tail of the recency order, one at a time in LRU order, until
\* size <= capacity, and never removes the entry at the head.
C5_TailOnly ==
    LET removed == SubSeq(Stored, Len(list') + 1, Len(Stored)) IN
    /\ IsPrefix(list', Stored)
    /\ Calls(purged', PURGE_REASON_CACHEFULL)
         = [i \in 1..Len(removed) |->
               Note(Reverse(removed)[i].value, PURGE_REASON_CACHEFULL)]
    /\ ~panicked' => size' <= capacity'

C5_AsClaimed == [][Stores => (C5_TailOnly /\ (~panicked' => list' # <<>>))]_vars

\* C5 (amended): ... and removes the entry at the head only when the value
\* just stored is by itself larger than the capacity.
C5_EvictionLaw ==
    [][Stores => (C5_TailOnly /\ (list' = <<>> => getSize(last'.v) > capacity))]_vars

\* A Set of a new key into a full engine has evicted the two entries held,
\* the least recently used one first, and kept the new one.
C5_Witness ==
    /\ last.op = "Set" /\ ~last.hit
    /\ capacity = 1 /\ size = 1
    /\ Len(list) = 1 /\ Keys[1] = last.k
    /\ purged = <<Note(3, PURGE_REASON_CACHEFULL), Note(1, PURGE_REASON_CACHEFULL)>>

\* ==========================================================================
\* C6: every operation makes exactly one purge call for each value that
\* leaves the engine in it and none for a value that stays: with reason
\* UPDATE for the value a Set supersedes, DELETE in Delete, CLEAR_ALL in
\* Clear and CACHEFULL for every other removal; the call reaches OnPurge
\* exactly when the value implements OnPurger.
\* The entries the operation has held, and those of them that are gone.
C6_Held == IF Stores THEN Stored ELSE list
C6_Gone == SelectSeq(C6_Held, LAMBDA e : e.key \notin KeysIn(list'))

C6_Cause ==
    CASE last'.op = "Delete" -> PURGE_REASON_DELETE
      [] last'.op = "Clear" -> PURGE_REASON_CLEAR_ALL
      [] OTHER -> PURGE_REASON_CACHEFULL

\* The calls expected, in the order the code makes them: the superseded
\* value first, then the removed entries from the LRU end (Clear: MRU first).
C6_Expected ==
    LET gone == IF last'.op = "Clear" THEN C6_Gone ELSE Reverse(C6_Gone) IN
    (IF last'.op = "Set" /\ last'.hit
     THEN <<Note(EntryOf(list, last'.k).value, PURGE_REASON_UPDATE)>>
     ELSE <<>>)
        \o [i \in 1..Len(gone) |-> Note(gone[i].value, C6_Cause)]

C6_NotificationLaw == [][purged' = C6_Expected]_vars

\* One Set has superseded a value and evicted two others.
C6_Witness ==
    /\ last.op = "Set" /\ last.hit
    /\ Len(purged) = 3
    /\ purged[1].why = PURGE_REASON_UPDATE
    /\ purged[3].why = PURGE_REASON_CACHEFULL

\* ==========================================================================
\* C7 (as claimed): Set(k, v2) on a key holding v1 makes exactly one UPDATE
\* call, for v1; it creates no second entry for k; and a Get(k) that follows
\* it returns (v2, true).
C7_OneUpdate ==
    (last'.op = "Set" /\ last'.hit) =>
        /\ Calls(purged', PURGE_REASON_UPDATE)
             = <<Note(EntryOf(list, last'.k).value, PURGE_REASON_UPDATE)>>
        /\ Cardinality(Positions(list', last'.k)) <= 1
        /\ \A i \in Positions(list', last'.k) :
             list'[i] = [key |-> last'.k, value |-> last'.v,
                         size |-> getSize(last'.v)]

C7_GetAfterSet ==
    (/\ last.op = "Set" /\ last.hit /\ ~panicked
     /\ last'.op = "Get" /\ last'.k = last.k)
        => (last'.hit /\ last'.ok /\ last'.v = last.v)

C7_AsClaimed == [][C7_OneUpdate /\ C7_GetAfterSet]_vars

\* C7 (amended): ... and a Get(k) that follows it returns (v2, true) when
\* the size of v2 does not exceed the capacity.
C7_UpdateInPlace ==
    [][/\ C7_OneUpdate
       /\ (last.op = "Set" /\ getSize(last.v) <= capacity) => C7_GetAfterSet]_vars

\* A Set has replaced a value that observes purges by a different value,
\* which the following Get can return.
C7_Witness ==
    /\ last.op = "Set" /\ last.hit
    /\ purged = <<Note(1, PURGE_REASON_UPDATE)>>
    /\ list # <<>>
    /\ list[1] = [key |-> last.k, value |-> 3, size |-> 0]
    /\ last.v = 3

\* ==========================================================================
\* C8: SetIfAbsent(k, v) on an indexed key only moves the entry of k to the
\* front: the entries (their values and recorded sizes) and the order of
\* the others, the table, size and capacity are unchanged, no purge call
\* is made and v is stored nowhere.
C8_OnlyPromotes ==
    [][(last'.op = "SetIfAbsent" /\ last'.hit) =>
          /\ list' = <<EntryOf(list, last'.k)>> \o Without(list, last'.k)
          /\ table' = table
          /\ size' = size
          /\ capacity' = capacity
          /\ onMiss' = onMiss
          /\ purged' = <<>>
          /\ ~panicked']_vars

\* SetIfAbsent has promoted the key of a full list that holds another value.
C8_Witness ==
    /\ last.op = "SetIfAbsent" /\ last.hit
    /\ Len(list) = 3
    /\ Keys[1] = last.k
    /\ list[1].value # last.v

\* ==========================================================================
\* C9 (as claimed): in every state, after SetIfAbsent(k, v1) immediately
\* followed by SetIfAbsent(k, v2) with v1 # v2, the value held for k is v1.
C9_HoldsFirst ==
    /\ last'.k \in KeysIn(list')
    /\ EntryOf(list', last'.k).value = last.v

C9_Pair ==
    /\ last.op = "SetIfAbsent" /\ ~panicked
    /\ last'.op = "SetIfAbsent" /\ last'.k = last.k /\ last'.v # last.v
    /\ ~panicked'

C9_AsClaimed == [][C9_Pair => C9_HoldsFirst]_vars

\* C9 (amended): the same, in every state where k is not indexed and for a
\* value v1 whose size does not exceed the capacity.
C9_Idempotence ==
    [][(C9_Pair /\ ~last.hit /\ getSize(last.v) <= capacity) => C9_HoldsFirst]_vars

\* The second SetIfAbsent of a key that the first one inserted has found it
\* and left the first value.
C9_Witness ==
    /\ last.op = "SetIfAbsent" /\ last.hit /\ last.again
    /\ last.k \in KeysIn(list)
    /\ EntryOf(list, last.k).value # last.v

\* ==========================================================================
\* C10: Delete(k) on an indexed key removes the entry of k from the list and
\* k from the table, subtracts the recorded size of the entry from size,
\* makes one DELETE call for its value, returns true and changes nothing
\* else; a Get(k) that follows it with no loader registered returns not
\* found.
C10_Removes ==
    (last'.op = "Delete" /\ last'.hit) =>
        LET e == EntryOf(list, last'.k) IN
        /\ list' = Without(list, last'.k)
        /\ Len(list') = Len(list) - 1
        /\ table' = table \ {last'.k}
        /\ size' = size - e.size
        /\ purged' = <<Note(e.value, PURGE_REASON_DELETE)>>
        /\ last'.ok
        /\ capacity' = capacity
        /\ onMiss' = onMiss
        /\ ~panicked'

C10_GetAfterDelete ==
    (/\ last.op = "Delete" /\ last.hit
     /\ last'.op = "Get" /\ last'.k = last.k /\ ~onMiss)
        => (~last'.hit /\ ~last'.ok /\ last'.v = NoValue)

C10_Delete == [][C10_Removes /\ C10_GetAfterDelete]_vars

\* Delete has removed an entry of size 1 and left two others.
C10_Witness ==
    /\ last.op = "Delete" /\ last.hit /\ last.ok
    /\ purged = <<Note(1, PURGE_REASON_DELETE)>>
    /\ size = 0
    /\ Len(list) = 2
    /\ last.k \notin table

\* ==========================================================================
\* C11: Delete(k) on a key that is not indexed returns false, makes no purge
\* call and leaves list, table, size, capacity and the loader unchanged.
C11_DeleteAbsent ==
    [][(last'.op = "Delete" /\ ~last'.hit) =>
          /\ ~last'.ok
          /\ purged' = <<>>
          /\ UNCHANGED <<list, table, size, capacity, onMiss>>
          /\ ~panicked']_vars

\* Delete has missed a key while the engine holds two other entries.
C11_Witness ==
    /\ last.op = "Delete" /\ ~last.hit /\ ~last.ok
    /\ last.k \notin table
    /\ Len(list) = 2
    /\ size = 1
    /\ purged = <<>>

\* ==========================================================================
\* C12: Clear() makes one CLEAR_ALL call for each entry held when it starts,
\* in the order of the list (MRU first), while the entries are all still
\* held (the scan walks the live list, so the calls are those of the whole
\* list); when it returns list and table are empty, size is 0 and the
\* capacity and the loader are unchanged.
C12_Clear ==
    [][last'.op = "Clear" =>
          /\ purged' = [i \in 1..Len(list) |->
                           Note(list[i].value, PURGE_REASON_CLEAR_ALL)]
          /\ list' = <<>>
          /\ table' = {}
          /\ size' = 0
          /\ UNCHANGED <<capacity, onMiss>>
          /\ ~panicked']_vars

\* Clear has emptied an engine of three entries; the most recently used
\* value observes purges, the next one does not.
C12_Witness ==
    /\ last.op = "Clear"
    /\ Len(purged) = 3
    /\ purged[1] = Note(1, PURGE_REASON_CLEAR_ALL)
    /\ purged[2] = Note(3, PURGE_REASON_CLEAR_ALL)
    /\ list = <<>> /\ table = {} /\ size = 0
    /\ capacity = 1

\* ==========================================================================
\* C13: SetCapacity(c) sets the capacity to c and then removes entries from
\* the LRU end, each with a CACHEFULL call, until size <= c; when c >= size
\* at the time of the call nothing is removed and list, table and size are
\* unchanged.
C13_SetCapacity ==
    [][last'.op = "SetCapacity" =>
          LET removed == SubSeq(list, Len(list') + 1, Len(list)) IN
          /\ IsPrefix(list', list)
          /\ table' = KeysIn(list')
          /\ size' = SumSizes(list')
          /\ purged' = [i \in 1..Len(removed) |->
                           Note(Reverse(removed)[i].value, PURGE_REASON_CACHEFULL)]
          /\ size' <= capacity'
          /\ ~panicked'
          /\ capacity' >= size =>
                (UNCHANGED <<list, table, size>> /\ purged' = <<>>)]_vars

\* ==========================================================================
\* C15: Get(k) on a key that is not indexed, with no loader registered,
\* returns (nil, false), makes no purge call and leaves list, table, size,
\* capacity and the loader unchanged.
C15_GetMiss ==
    [][(last'.op = "Get" /\ ~last'.hit /\ ~onMiss) =>
          /\ last'.v = NoValue /\ ~last'.ok
          /\ purged' = <<>>
          /\ UNCHANGED <<list, table, size, capacity, onMiss>>
          /\ ~panicked']_vars

\* Get has missed a key of an engine without loader that holds two entries.
C15_Witness ==
    /\ last.op = "Get" /\ ~last.hit /\ ~last.ok /\ last.v = NoValue
    /\ ~onMiss
    /\ last.k \notin table
    /\ Len(list) = 2

\* ==========================================================================
\* C14: Get(k) on a key that is not indexed, with a loader registered, calls
\* the loader once with k (its one result (v, ok) is the input of the step);
\* if ok, k -> v is inserted exactly as by Set(k, v) of a key that is not
\* indexed (at the MRU position, with the size getSize(v), followed by the
\* capacity enforcement) and Get returns (v, true); if not ok, nothing is
\* inserted, the state is unchanged and Get returns found = false.
\* The numbers of entries, counted from the MRU end of the order right
\* after the insertion, whose sizes sum to at most the capacity.
C14_Fits ==
    {n \in 0..Len(Stored) : SumSizes(SubSeq(Stored, 1, n)) <= capacity}

\* The insertion and the capacity enforcement have completed.
C14_Inserted ==
    LET n == CHOOSE m \in C14_Fits : \A j \in C14_Fits : j <= m
        removed == SubSeq(Stored, n + 1, Len(Stored))
    IN  /\ C14_Fits # {}
        /\ list' = SubSeq(Stored, 1, n)
        /\ table' = KeysIn(list')
        /\ size' = SumSizes(list')
        /\ purged' = [i \in 1..Len(removed) |->
                         Note(Reverse(removed)[i].value, PURGE_REASON_CACHEFULL)]
        /\ UNCHANGED <<capacity, onMiss>>
        /\ ~panicked'

C14_LoadingGet ==
    [][(last'.op = "Get" /\ ~last'.hit /\ onMiss) =>
          IF last'.ok
          THEN C14_Inserted
          ELSE /\ purged' = <<>>
               /\ UNCHANGED <<list, table, size, capacity, onMiss>>
               /\ ~panicked']_vars

\* ==========================================================================
\* C19: with a capacity of 0 or less, every operation that inserts a new
\* entry (Set or SetIfAbsent of a key that is not indexed, Get through the
\* loader), whatever the size of the value, evicts that entry with a
\* CACHEFULL call before it returns, and the engine is empty when it
\* returns.
C19_EvictedAtOnce ==
    [][(Stores /\ ~last'.hit /\ capacity <= 0) =>
          /\ purged' # <<>>
          /\ purged'[Len(purged')] = Note(last'.v, PURGE_REASON_CACHEFULL)
          /\ list' = <<>> /\ table' = {} /\ size' = 0
          /\ ~panicked']_vars

\* ==========================================================================
\* C20: every capacity, zero and negative ones included, is accepted by the
\* constructor and by SetCapacity, and no operation of the engine faults
\* because of it.
C20_NoFault == ~panicked

\* ==========================================================================
\* ---- the shard router and its callers --------------------------------------
\* A router forwards every call to the engine of a shard; the engines are
\* LRUCacheKeyUint64 values, the same code as LRUCacheInt with another key
\* type.  Several threads call the router.  A call is a sequence of steps:
\* sync.Mutex.Lock of the engine, the statements of the method up to the
\* next call of user code (the loader, or OnPurge of a value), the return
\* of that call, ..., Unlock.  User code may take any time, or never return.
NumThreads == 2
MaxShards == 2

Threads == 1..NumThreads
ShardCounts == 0..MaxShards
\* The values the threads store: one that observes purges, of size 1, and
\* one that does not, of size 0.
ShardValues == {1, 3}

\* The quotient of Go's integer division, which truncates toward zero.
Quo(a, b) == IF a >= 0 THEN a \div b ELSE 0 - ((0 - a) \div b)

NewLRUCacheKeyUint64(c) ==
    [list |-> <<>>, table |-> {}, size |-> 0, capacity |-> c, onMiss |-> FALSE]

\* A faulty ShardCapacity: the remainder is given to no shard.
ShardCapacity_NoRemainder(c, n, i) == Quo(c, n)

\* The capacity of shard i of n when the router is given capacity c.
ShardCapacity(c, n, i) ==
    LET shardCap == Quo(c, n)
        leftCap == c - shardCap * n
    IN  IF i = n THEN shardCap + leftCap ELSE shardCap

NewShardLRUCacheKeyUint64(count, c) ==
    LET n == IF count < 1 THEN 1 ELSE count IN
    [i \in 1..n |-> NewLRUCacheKeyUint64(ShardCapacity(c, n, i))]

shardCount == Len(cachelist)

\* a % n of Go for n > 0: the remainder has the sign of a.
Rem(a, n) == IF a >= 0 THEN a % n ELSE 0 - ((0 - a) % n)

\* A faulty GetShard: the key is not hashed, every key goes to cachelist[0].
GetShard_First(k) == 1

\* cachelist[idx] of the code is cachelist[idx + 1] here; the ToSum() of
\* the keys of the model is the key itself.
GetShard(k) == Rem(k, shardCount) + 1

\* The position of a thread that is in no call.  In a call made by user
\* code that a method of the engine is running, outer holds the position of
\* that method.
Idle ==
    [at |-> "idle", op |-> "none", e |-> 0, k |-> NoKey, v |-> NoValue,
     ok |-> FALSE, c |-> 0, h |-> FALSE, i |-> 0, n |-> 0, cb |-> NoValue,
     why |-> 0, ret |-> "none", loaded |-> FALSE,
     snap |-> NewLRUCacheKeyUint64(0), outer |-> <<>>]

\* The methods of the router that forward to one shard, those that visit
\* every shard in index order.
SingleKey == {"Get", "Set", "SetIfAbsent", "Delete"}
WholeCache == {"Clear", "SetCapacity", "Length", "OnMiss"}

InitShards ==
    /\ list = <<>>
    /\ table = {}
    /\ size = 0
    /\ capacity = 0
    /\ onMiss = FALSE
    /\ purged = <<>>
    /\ last = [op |-> "New", k |-> NoKey, v |-> NoValue, hit |-> FALSE,
               ok |-> FALSE, again |-> FALSE]
    /\ panicked = FALSE
    /\ reports = [x \in ValueIds |-> ValueSize(x)]
    /\ demo = NoDemo
    /\ asked = NoRouter
    /\ snapshot = NoSlice
    /\ \E count \in ShardCounts, c \in Capacities :
           cachelist = NewShardLRUCacheKeyUint64(count, c)
    /\ mu = [e \in 1..Len(cachelist) |-> 0]
    /\ pc = [t \in Threads |-> Idle]

\* A faulty Enter: the method does not wait for the lock of the engine.
Enter_NoWait(t, op, k, v, c) ==
    LET e == IF op \in SingleKey THEN GetShard(k) ELSE 1 IN
    /\ ~panicked
    /\ pc[t].at = "idle"
    /\ mu' = [mu EXCEPT ![e] = t]
    /\ pc' = [pc EXCEPT ![t] =
                 [Idle EXCEPT !.at = "locked", !.op = op, !.e = e,
                              !.k = k, !.v = v, !.c = c,
                              !.snap = cachelist[e]]]
    /\ UNCHANGED <<cachelist, panicked, engine>>

\* Thread t calls a method of the router.  The method forwards to the
\* engine of the key (or of the first shard), whose method starts with
\* lru.mu.Lock(): the call proceeds once no thread holds that lock.
Enter(t, op, k, v, c) ==
    LET e == IF op \in SingleKey THEN GetShard(k) ELSE 1 IN
    /\ ~panicked
    /\ pc[t].at = "idle"
    /\ mu[e] = 0
    /\ mu' = [mu EXCEPT ![e] = t]
    /\ pc' = [pc EXCEPT ![t] =
                 [Idle EXCEPT !.at = "locked", !.op = op, !.e = e,
                              !.k = k, !.v = v, !.c = c,
                              !.snap = cachelist[e]]]
    /\ UNCHANGED <<cachelist, panicked, engine>>

ShardGet(t, k) == Enter(t, "Get", k, NoValue, 0)
ShardSet(t, k, value) == Enter(t, "Set", k, value, 0)
ShardSetIfAbsent(t, k, value) == Enter(t, "SetIfAbsent", k, value, 0)
ShardDelete(t, k) == Enter(t, "Delete", k, NoValue, 0)
ShardClear(t) == Enter(t, "Clear", NoKey, NoValue, 0)
ShardSetCapacity(t, c) == Enter(t, "SetCapacity", NoKey, NoValue, c)
ShardLength(t) == Enter(t, "Length", NoKey, NoValue, 0)

\* A faulty Lock: it does not wait for the lock to be free.
Lock_NoWait(t) ==
    /\ ~panicked
    /\ pc[t].at = "lock"
    /\ mu' = [mu EXCEPT ![pc[t].e] = t]
    /\ pc' = [pc EXCEPT ![t].at = "locked", ![t].snap = cachelist[pc[t].e]]
    /\ UNCHANGED <<cachelist, panicked, engine>>

\* lru.mu.Lock() of the engine a method visits next, or of the engine that
\* user code calls: blocks while a thread holds it.
Lock(t) ==
    /\ ~panicked
    /\ pc[t].at = "lock"
    /\ mu[pc[t].e] = 0
    /\ mu' = [mu EXCEPT ![pc[t].e] = t]
    /\ pc' = [pc EXCEPT ![t].at = "locked", ![t].snap = cachelist[pc[t].e]]
    /\ UNCHANGED <<cachelist, panicked, engine>>

\* The deferred lru.mu.Unlock() and the return; a method that visits every
\* shard goes on to the next engine.
Unlock(t) ==
    /\ ~panicked
    /\ pc[t].at = "unlock"
    /\ mu' = [mu EXCEPT ![pc[t].e] = 0]
    /\ pc' = [pc EXCEPT ![t] =
                 IF pc[t].outer # <<>> THEN pc[t].outer[1]
                 ELSE IF pc[t].op \in WholeCache /\ pc[t].e < shardCount
                 THEN [Idle EXCEPT !.at = "lock", !.op = pc[t].op,
                                   !.e = pc[t].e + 1, !.c = pc[t].c,
                                   !.n = pc[t].n]
                 ELSE Idle]
    /\ UNCHANGED <<cachelist, panicked, engine>>

\* The statements of thread t between two calls of user code: engine
\* pc[t].e becomes s and the thread moves to position p.
Run(t, s, p) ==
    /\ cachelist' = [cachelist EXCEPT ![pc[t].e] = s]
    /\ pc' = [pc EXCEPT ![t] = p]
    /\ panicked' = (p.at = "panic")
    /\ UNCHANGED <<mu, engine>>

\* safeOnPurge(c, why) at position p, the method going on at position ret
\* when it returns: c.OnPurge(why) is called if c implements OnPurger.
Notify(p, c, why, ret) ==
    IF OnPurger(c)
    THEN [p EXCEPT !.at = "purge", !.cb = c, !.why = why, !.ret = ret]
    ELSE [p EXCEPT !.at = ret]

\* ---- the methods of the engine, between Lock and Unlock --------------------
\* Get: the table lookup, the promotion of a hit, the test of lru.onMiss.
GetLocked(t) ==
    LET p == pc[t]
        s == cachelist[p.e]
    IN  /\ ~panicked
        /\ p.at = "locked" /\ p.op = "Get"
        /\ IF p.k \in s.table
           THEN Run(t, [s EXCEPT !.list = moveToFront(s.list, p.k)],
                    [p EXCEPT !.at = "unlock", !.ok = TRUE,
                              !.v = s.list[ElementOf(s.list, p.k)].value])
           ELSE IF ~s.onMiss
                THEN Run(t, s, [p EXCEPT !.at = "unlock"])
                ELSE Run(t, s, [p EXCEPT !.at = "call"])

\* v, ok = lru.onMiss(k): the second read of lru.onMiss.  OnMiss writes the
\* field without the lock, so the field may have become nil since the test;
\* the call then uses the value of the test or the nil one (a nil func).
CallOnMiss(t) ==
    LET p == pc[t]
        s == cachelist[p.e]
    IN  /\ ~panicked
        /\ p.at = "call"
        /\ \E seen \in {s.onMiss, TRUE} :
              Run(t, s, IF seen THEN [p EXCEPT !.at = "loader"]
                        ELSE [p EXCEPT !.at = "panic", !.ret = "call"])

\* The loader returns (v, ok).
OnMissReturns(t, v, ok) ==
    LET p == pc[t]
        s == cachelist[p.e]
    IN  /\ ~panicked
        /\ p.at = "loader"
        /\ Run(t, s, [p EXCEPT !.at = IF ok THEN "set" ELSE "unlock",
                               !.v = v, !.ok = ok, !.loaded = TRUE])

\* lru.set(k, value), up to the first safeOnPurge or to checkCapacity.
setLocked(t) ==
    LET p == pc[t]
        s == cachelist[p.e]
        newEntry == [key |-> p.k, value |-> p.v, size |-> getSize(p.v)]
    IN  /\ ~panicked
        /\ (p.at = "locked" /\ p.op = "Set") \/ p.at = "set"
        /\ IF p.k \in s.table
           THEN Run(t, s, Notify(p, s.list[ElementOf(s.list, p.k)].value,
                                 PURGE_REASON_UPDATE, "update"))
           ELSE Run(t, [s EXCEPT !.list = <<newEntry>> \o @,
                                 !.table = @ \cup {p.k},
                                 !.size = @ + newEntry.size],
                    [p EXCEPT !.at = "evict"])

\* updateInplace after safeOnPurge of the old value.
updateInplaceRest(t) ==
    LET p == pc[t]
        s == cachelist[p.e]
        i == ElementOf(s.list, p.k)
        valueSize == getSize(p.v)
        sizeDiff == valueSize - s.list[i].size
        upd == [s.list EXCEPT ![i].value = p.v, ![i].size = valueSize]
    IN  /\ ~panicked
        /\ p.at = "update"
        /\ Run(t, [s EXCEPT !.list = moveToFront(upd, p.k),
                            !.size = @ + sizeDiff],
               [p EXCEPT !.at = "evict"])

\* One turn of the loop of checkCapacity.
checkCapacityLoop(t) ==
    LET p == pc[t]
        s == cachelist[p.e]
    IN  /\ ~panicked
        /\ p.at = "evict"
        /\ IF s.size > s.capacity
           THEN IF s.list = <<>>
                THEN Run(t, s, [p EXCEPT !.at = "panic", !.ret = "evict"])
                ELSE LET delValue == s.list[Len(s.list)] IN
                     Run(t, [s EXCEPT
                                !.list = SubSeq(s.list, 1, Len(s.list) - 1),
                                !.table = @ \ {delValue.key},
                                !.size = @ - delValue.size],
                         Notify(p, delValue.value, PURGE_REASON_CACHEFULL, "evict"))
           ELSE Run(t, s, [p EXCEPT !.at = "unlock"])

SetIfAbsentLocked(t) ==
    LET p == pc[t]
        s == cachelist[p.e]
        newEntry == [key |-> p.k, value |-> p.v, size |-> getSize(p.v)]
    IN  /\ ~panicked
        /\ p.at = "locked" /\ p.op = "SetIfAbsent"
        /\ IF p.k \in s.table
           THEN Run(t, [s EXCEPT !.list = moveToFront(s.list, p.k)],
                    [p EXCEPT !.at = "unlock"])
           ELSE Run(t, [s EXCEPT !.list = <<newEntry>> \o @,
                                 !.table = @ \cup {p.k},
                                 !.size = @ + newEntry.size],
                    [p EXCEPT !.at = "evict"])

\* A faulty Delete: delete(lru.table, k) is missing.
DeleteLocked_KeepsIndex(t) ==
    LET p == pc[t]
        s == cachelist[p.e]
    IN  /\ ~panicked
        /\ p.at = "locked" /\ p.op = "Delete"
        /\ IF p.k \notin s.table
           THEN Run(t, s, [p EXCEPT !.at = "unlock"])
           ELSE LET el == s.list[ElementOf(s.list, p.k)] IN
                Run(t, [s EXCEPT !.list = ListRemove(s.list, p.k),
                                 !.size = @ - el.size],
                    Notify([p EXCEPT !.ok = TRUE], el.value,
                           PURGE_REASON_DELETE, "unlock"))

DeleteLocked(t) ==
    LET p == pc[t]
        s == cachelist[p.e]
    IN  /\ ~panicked
        /\ p.at = "locked" /\ p.op = "Delete"
        /\ IF p.k \notin s.table
           THEN Run(t, s, [p EXCEPT !.at = "unlock"])
           ELSE LET el == s.list[ElementOf(s.list, p.k)] IN
                Run(t, [s EXCEPT !.list = ListRemove(s.list, p.k),
                                 !.table = @ \ {p.k},
                                 !.size = @ - el.size],
                    Notify([p EXCEPT !.ok = TRUE], el.value,
                           PURGE_REASON_DELETE, "unlock"))

\* Clear: the scan of the list, one safeOnPurge at a time (p.i elements
\* are done), then the reset.
ClearLoop(t) ==
    LET p == pc[t]
        s == cachelist[p.e]
    IN  /\ ~panicked
        /\ (p.at = "locked" /\ p.op = "Clear") \/ p.at = "clear"
        /\ IF p.i < Len(s.list)
           THEN Run(t, s, Notify([p EXCEPT !.i = @ + 1], s.list[p.i + 1].value,
                                 PURGE_REASON_CLEAR_ALL, "clear"))
           ELSE Run(t, [s EXCEPT !.list = <<>>, !.table = {}, !.size = 0],
                    [p EXCEPT !.at = "unlock"])

SetCapacityLocked(t) ==
    LET p == pc[t]
        s == cachelist[p.e]
    IN  /\ ~panicked
        /\ p.at = "locked" /\ p.op = "SetCapacity"
        /\ Run(t, [s EXCEPT !.capacity = ShardCapacity(p.c, shardCount, p.e)],
               [p EXCEPT !.at = "evict"])

\* Length: the sum of the lengths of the shards, one Length() at a time.
LengthLocked(t) ==
    LET p == pc[t]
        s == cachelist[p.e]
    IN  /\ ~panicked
        /\ p.at = "locked" /\ p.op = "Length"
        /\ Run(t, s, [p EXCEPT !.at = "unlock", !.n = @ + Len(s.list)])

\* c.OnPurge(why) returns.
OnPurgeReturns(t) ==
    /\ ~panicked
    /\ pc[t].at = "purge"
    /\ pc' = [pc EXCEPT ![t].at = pc[t].ret, ![t].cb = NoValue,
                        ![t].why = 0, ![t].ret = "none"]
    /\ UNCHANGED <<cachelist, mu, panicked, engine>>

\* OnMiss of the router calls OnMiss of every shard in turn; OnMiss of the
\* engine is lru.onMiss = onMiss, with no Lock.  The call of the first
\* shard:
ShardOnMiss(t, h) ==
    /\ ~panicked
    /\ pc[t].at = "idle"
    /\ cachelist' = [cachelist EXCEPT ![1].onMiss = h]
    /\ pc' = [pc EXCEPT ![t] =
                 IF 1 < shardCount
                 THEN [Idle EXCEPT !.at = "onmiss", !.op = "OnMiss",
                                   !.e = 2, !.h = h]
                 ELSE Idle]
    /\ UNCHANGED <<mu, panicked, engine>>

\* and of the next ones.
OnMissWrite(t) ==
    LET p == pc[t]
        s == cachelist[p.e]
    IN  /\ ~panicked
        /\ p.at = "onmiss"
        /\ Run(t, [s EXCEPT !.onMiss = p.h],
               IF p.e < shardCount THEN [p EXCEPT !.e = @ + 1] ELSE Idle)

\* The steps of thread t in a call that visits one engine.
Step(t) ==
    \/ \E k \in KeyIds : ShardGet(t, k)
    \/ \E k \in KeyIds, v \in ShardValues : ShardSet(t, k, v)
    \/ \E k \in KeyIds, v \in ShardValues : ShardSetIfAbsent(t, k, v)
    \/ \E k \in KeyIds : ShardDelete(t, k)
    \/ ShardClear(t)
    \/ \E c \in Capacities : ShardSetCapacity(t, c)
    \/ \E h \in BOOLEAN : ShardOnMiss(t, h)
    \/ ShardLength(t)
    \/ GetLocked(t)
    \/ CallOnMiss(t)
    \/ \E v \in ShardValues, ok \in BOOLEAN : OnMissReturns(t, v, ok)
    \/ setLocked(t)
    \/ updateInplaceRest(t)
    \/ checkCapacityLoop(t)
    \/ SetIfAbsentLocked(t)
    \/ DeleteLocked(t)
    \/ ClearLoop(t)
    \/ SetCapacityLocked(t)
    \/ LengthLocked(t)
    \/ OnPurgeReturns(t)
    \/ Unlock(t)

NextShards == \E t \in Threads : Step(t) \/ Lock(t) \/ OnMissWrite(t)

SpecShards == InitShards /\ [][NextShards]_vars

\* One engine and the threads that call it: the router of one shard.
InitThreads == InitShards /\ Len(cachelist) = 1

NextThreads == \E t \in Threads : Step(t)

SpecThreads == InitThreads /\ [][NextThreads]_vars

\* ==========================================================================
\* ---- auxiliary definitions of the properties about threads ----------------
\* The positions between Lock and Unlock of a method of the engine.
Section ==
    {"locked", "call", "loader", "set", "update", "evict", "clear", "purge",
     "unlock", "panic"}
\* The positions where user code called by the engine is running.
UserCode == {"loader", "purge"}
Inside(t, e) == pc[t].e = e /\ pc[t].at \in Section

\* The fields of an engine s that the lock protects besides the loader, as
\* the record the unexported methods work on.
Fields(s) ==
    [list |-> s.list, table |-> s.table, size |-> s.size,
     capacity |-> s.capacity, purged |-> <<>>, panic |-> FALSE]

\* What the method thread position p is in makes of the engine it found when
\* it took the lock, run on its own from Lock to Unlock.
Alone(p) ==
    LET s == Fields(p.snap) IN
    CASE p.op = "Get" ->
           IF p.k \in s.table THEN [s EXCEPT !.list = moveToFront(s.list, p.k)]
           ELSE IF p.loaded /\ p.ok THEN set(s, p.k, p.v) ELSE s
      [] p.op = "Set" -> set(s, p.k, p.v)
      [] p.op = "SetIfAbsent" ->
           IF p.k \in s.table THEN [s EXCEPT !.list = moveToFront(s.list, p.k)]
           ELSE addNew(s, p.k, p.v)
      [] p.op = "Delete" ->
           IF p.k \in s.table
           THEN [s EXCEPT !.list = ListRemove(s.list, p.k), !.table = @ \ {p.k},
                          !.size = @ - EntryOf(s.list, p.k).size]
           ELSE s
      [] p.op = "Clear" -> [s EXCEPT !.list = <<>>, !.table = {}, !.size = 0]
      [] p.op = "SetCapacity" ->
           checkCapacity([s EXCEPT !.capacity = ShardCapacity(p.c, shardCount, p.e)])
      [] OTHER -> s

\* What the method at p returns, run alone: found (Get), existed (Delete).
AloneOk(p) ==
    CASE p.op = "Get" -> p.k \in p.snap.table \/ (p.loaded /\ p.ok)
      [] p.op = "Delete" -> p.k \in p.snap.table
      [] OTHER -> FALSE

\* ==========================================================================
\* C16: with several threads calling Set, SetIfAbsent, Get, Delete, Clear,
\* SetCapacity and Length of one engine, at most one thread is between Lock
\* and Unlock at any instant and it holds the lock; the eviction loop, every
\* OnPurge call and the loader call are made there, so no two OnPurge calls
\* of the engine run at the same time; and when a method reaches its Unlock
\* (or faults in checkCapacity) the engine and the result are those of the
\* method run alone on the engine it found at Lock: the execution is that
\* of the methods one after the other, in the order of their Locks.
C16_OneAtATime ==
    \A e \in 1..shardCount : \A t, u \in Threads :
        /\ Inside(t, e) => mu[e] = t
        /\ (Inside(t, e) /\ Inside(u, e)) => t = u
        /\ (pc[t].at \in UserCode /\ pc[u].at \in UserCode /\ pc[t].e = pc[u].e)
              => t = u

C16_AsAlone ==
    \A t \in Threads :
        LET p == pc[t]
            a == Alone(p)
        IN  /\ p.at = "unlock" =>
                 /\ Fields(cachelist[p.e]) = [a EXCEPT !.purged = <<>>]
                 /\ p.ok = AloneOk(p)
                 /\ (p.op = "Get" /\ p.k \in p.snap.table)
                       => p.v = EntryOf(p.snap.list, p.k).value
                 /\ p.op = "Length" => p.n = Len(p.snap.list)
            /\ (p.at = "panic" /\ p.ret = "evict") =>
                 Fields(cachelist[p.e]) = [a EXCEPT !.purged = <<>>, !.panic = FALSE]
                    /\ a.panic

C16_Serial == C16_OneAtATime /\ C16_AsAlone

\* A Set is in the OnPurge call of an entry it has evicted, holding the
\* lock of an engine it has changed, and the other thread is in no method.
C16_Witness ==
    /\ pc[1].at = "purge" /\ pc[1].op = "Set"
    /\ pc[1].why = PURGE_REASON_CACHEFULL
    /\ mu = <<1>>
    /\ cachelist[1].list # pc[1].snap.list
    /\ Len(cachelist[1].list) = 2
    /\ pc[2].at = "idle"

\* ==========================================================================
\* C17: OnMiss takes the lock of the engine like every other method: the
\* loader reference of an engine is never written while another thread is
\* between Lock and Unlock of a method of that engine.
C17_OnMissLocked ==
    [][\A e \in 1..shardCount :
          cachelist'[e].onMiss # cachelist[e].onMiss
             => \A t \in Threads : ~Inside(t, e)]_vars

\* ==========================================================================
\* C18: while a loader or an OnPurge called by a method of the engine of one
\* shard has not returned, no other thread runs any operation of that engine
\* (nothing of the engine changes and no other thread is between its Lock
\* and Unlock), whereas the methods of a key of another shard run to their
\* end.
C18_OnlyItsShard ==
    [][\A t \in Threads :
          pc[t].at \in UserCode =>
              /\ cachelist'[pc[t].e] = cachelist[pc[t].e]
              /\ \A u \in Threads \ {t} : ~Inside(u, pc[t].e)']_vars

\* ==========================================================================
\* ---- auxiliary definitions of the properties about the accessors ----------
Accessors == {"Keys", "Values", "Items"}
\* The keys and the values of a slice of keys, of values or of items.
KeysOf(snap) ==
    IF snap.of = "Items" THEN [i \in 1..Len(snap.slice) |-> snap.slice[i].Key]
    ELSE snap.slice
ValuesOf(snap) ==
    IF snap.of = "Items" THEN [i \in 1..Len(snap.slice) |-> snap.slice[i].Value]
    ELSE snap.slice

\* ==========================================================================
\* C21: Keys(), Values() and Items() each return the keys, the values or the
\* (key, value) pairs of the entries held, from the most recently used one
\* to the least recently used one (the key of a Get, Set or SetIfAbsent that
\* has just returned and is still held comes first), as many as Length(),
\* and change nothing in the engine; Items()[i] = (Keys()[i], Values()[i])
\* for slices taken one right after the other; and the operations that
\* follow leave a slice that was returned as it is.
C21_InOrder ==
    last'.op \in Accessors =>
        /\ snapshot'.of = last'.op
        /\ Len(snapshot'.slice) = Length'
        /\ UNCHANGED <<list, table, size, capacity, onMiss>>
        /\ purged' = <<>> /\ ~panicked'
        /\ last'.op \in {"Keys", "Items"} =>
              /\ KeysOf(snapshot') = [i \in 1..Len(list) |-> list[i].key]
              /\ (last.op \in {"Get", "Set", "SetIfAbsent"} /\ last.k \in table)
                    => KeysOf(snapshot')[1] = last.k
        /\ last'.op \in {"Values", "Items"} =>
              /\ ValuesOf(snapshot') = [i \in 1..Len(list) |-> list[i].value]
              /\ (last.op \in {"Set", "SetIfAbsent"} /\ ~last.hit /\ last.k \in table)
                    => ValuesOf(snapshot')[1] = last.v

C21_SameState ==
    (last.op \in Accessors /\ last'.op \in Accessors) =>
        /\ ({last.op, last'.op} \subseteq {"Keys", "Items"})
              => KeysOf(snapshot') = KeysOf(snapshot)
        /\ ({last.op, last'.op} \subseteq {"Values", "Items"})
              => ValuesOf(snapshot') = ValuesOf(snapshot)

C21_Snapshots ==
    [][/\ C21_InOrder
       /\ C21_SameState
       /\ last'.op \notin Accessors => snapshot' = snapshot]_vars

\* The caller holds the two keys Keys() returned, and a Delete that
\* followed has removed the first of them from the engine.
C21_Witness ==
    /\ snapshot.of = "Keys"
    /\ Len(snapshot.slice) = 2
    /\ last.op = "Delete" /\ last.hit
    /\ last.k = snapshot.slice[1]
    /\ Keys = <<snapshot.slice[2]>>

\* ==========================================================================
\* C22: the size of an entry is what Size() of its value reports in the Set,
\* SetIfAbsent or loading Get that stores the value, or 1 for a value
\* without Size(), and it is recorded in the entry; no other operation asks
\* the value again: the entries that stay keep the value and the size
\* recorded, and what leaves the engine is subtracted at its recorded size,
\* also when the value reports another size by then.
\* The entries of l other than the one of key k.
C22_Others(l, k) == {l[i] : i \in {j \in 1..Len(l) : l[j].key # k}}
\* The entries of list that list' does not hold.
C22_Removed == SelectSeq(list, LAMBDA e : e.key \notin KeysIn(list'))

C22_Recorded ==
    /\ Stores =>
          /\ last'.k \in KeysIn(list') =>
                EntryOf(list', last'.k).size
                    = IF SizeAware(last'.v) THEN reports[last'.v] ELSE 1
          /\ C22_Others(list', last'.k) \subseteq C22_Others(list, last'.k)
    /\ ~Stores =>
          /\ \A i \in 1..Len(list') : \E j \in 1..Len(list) : list'[i] = list[j]
          /\ size' = size - SumSizes(C22_Removed)
    /\ size' = SumSizes(list')
    /\ last'.op = "Resize" => UNCHANGED <<list, table, size, capacity>>

C22_SizeReadOnce == [][C22_Recorded]_vars

\* Delete has removed the one entry held, whose value reports size 2 by now:
\* an engine of capacity 1 held it at the size 1 recorded when it was
\* stored, and that size was subtracted.
C22_Witness ==
    /\ last.op = "Delete" /\ last.hit
    /\ purged = <<Note(2, PURGE_REASON_DELETE)>>
    /\ reports[2] = 2
    /\ capacity = 1
    /\ list = <<>> /\ size = 0

\* ==========================================================================
\* C23: an engine made empty with capacity C >= 0 in which n distinct keys
\* have been Set with values of size 1 has made n - C purge calls if n > C,
\* none otherwise, all with reason CACHEFULL, and holds the last C keys Set
\* (all of them if n <= C), the newest first: the keys evicted are the first
\* n - C ones, and as this holds after every Set, each Set beyond the C-th
\* evicts one entry, the oldest one held.
C23_Demo ==
    LET n == Len(demo.sets)
        m == IF n > capacity THEN n - capacity ELSE 0
    IN  /\ demo.purges = [i \in 1..m |-> Note(DemoValue, PURGE_REASON_CACHEFULL)]
        /\ Keys = [i \in 1..(n - m) |-> demo.sets[n + 1 - i]]
        /\ size = n - m
        /\ ~panicked

\* The spec's example: capacity 3, four keys Set, the first one evicted.
C23_Witness ==
    /\ capacity = 3
    /\ Len(demo.sets) = 4
    /\ Keys = <<demo.sets[4], demo.sets[3], demo.sets[2]>>
    /\ demo.sets[1] \notin table
    /\ demo.purges = <<Note(DemoValue, PURGE_REASON_CACHEFULL)>>

\* ==========================================================================
\* ---- the shard router with one caller ---------------------------------------
\* One thread calls the methods of the router one after the other: every
\* method runs from its call to its return with no other method running,
\* so one method is one action.
RouterCapacities == (0 - NegCap)..(MaxCap + MaxShards)
\* The values stored through the router have size 1 and observe purges.
RouterInputs == {1}

\* The method op of engine s, run from Lock to Unlock on the fields the lock
\* protects: Get of key k (v, ok: what the loader returns if it is called),
\* Set or SetIfAbsent of k and v, Delete of k, Clear, SetCapacity(c).
Method(s, op, k, v, ok, c) ==
    LET f == [list |-> s.list, table |-> s.table, size |-> s.size,
              capacity |-> s.capacity, purged |-> <<>>, panic |-> FALSE]
    IN  CASE op = "Get" ->
               IF k \in s.table THEN [f EXCEPT !.list = moveToFront(s.list, k)]
               ELSE IF s.onMiss /\ ok THEN set(f, k, v) ELSE f
          [] op = "Set" -> set(f, k, v)
          [] op = "SetIfAbsent" ->
               IF k \in s.table THEN [f EXCEPT !.list = moveToFront(s.list, k)]
               ELSE addNew(f, k, v)
          [] op = "Delete" ->
               IF k \notin s.table THEN f
               ELSE LET e == s.list[ElementOf(s.list, k)] IN
                    [f EXCEPT !.list = ListRemove(s.list, k),
                              !.table = @ \ {k},
                              !.size = @ - e.size,
                              !.purged = safeOnPurge(@, e.value, PURGE_REASON_DELETE)]
          [] op = "Clear" ->
               [f EXCEPT !.purged = ClearPurge(<<>>, s.list),
                         !.list = <<>>, !.table = {}, !.size = 0]
          [] op = "SetCapacity" -> checkCapacity([f EXCEPT !.capacity = c])
          [] OTHER -> f

\* Engine s with the fields as the method left them.
After(s, f) ==
    [list |-> f.list, table |-> f.table, size |-> f.size,
     capacity |-> f.capacity, onMiss |-> s.onMiss]

\* A method of the router that forwards to the engine of key k.
Forward(op, k, v, ok, ret) ==
    LET e == GetShard(k)
        s == cachelist[e]
        f == Method(s, op, k, v, ok, 0)
    IN  /\ ~panicked
        /\ cachelist' = [cachelist EXCEPT ![e] = After(s, f)]
        /\ purged' = f.purged
        /\ panicked' = f.panic
        /\ last' = Op(op, k, v, k \in s.table, ret)
        /\ snapshot' = NoSlice
        /\ UNCHANGED <<list, table, size, capacity, onMiss, reports, asked,
                       mu, pc>>

RouterGet(k) ==
    LET s == cachelist[GetShard(k)] IN
    /\ IF k \in s.table
       THEN Forward("Get", k, s.list[ElementOf(s.list, k)].value, TRUE, TRUE)
       ELSE IF ~s.onMiss
            THEN Forward("Get", k, NoValue, FALSE, FALSE)
            ELSE \E v \in RouterInputs, ok \in BOOLEAN : Forward("Get", k, v, ok, ok)
    /\ UNCHANGED demo

RouterSet(k, value) == Forward("Set", k, value, FALSE, TRUE) /\ UNCHANGED demo
RouterSetIfAbsent(k, value) ==
    Forward("SetIfAbsent", k, value, FALSE, TRUE) /\ UNCHANGED demo
RouterDelete(k) ==
    /\ Forward("Delete", k, NoValue, FALSE, k \in cachelist[GetShard(k)].table)
    /\ UNCHANGED demo

\* A method of the router that calls the method op of every engine, from
\* cachelist[i] on; a fault in one engine ends it.
RECURSIVE Range(_, _, _, _, _)
Range(cl, i, op, c, log) ==
    IF i > Len(cl) THEN [cachelist |-> cl, purged |-> log, panic |-> FALSE]
    ELSE LET f == Method(cl[i], op, NoKey, NoValue, FALSE,
                         ShardCapacity(c, Len(cl), i))
             next == [cl EXCEPT ![i] = After(cl[i], f)]
         IN  IF f.panic
             THEN [cachelist |-> next, purged |-> log \o f.purged, panic |-> TRUE]
             ELSE Range(next, i + 1, op, c, log \o f.purged)

Each(op, c) ==
    LET r == Range(cachelist, 1, op, c, <<>>) IN
    /\ ~panicked
    /\ cachelist' = r.cachelist
    /\ purged' = r.purged
    /\ panicked' = r.panic
    /\ last' = Op(op, NoKey, NoValue, FALSE, TRUE)
    /\ snapshot' = NoSlice
    /\ UNCHANGED <<list, table, size, capacity, onMiss, reports, demo, mu, pc>>

RouterClear == Each("Clear", 0) /\ UNCHANGED asked

RouterSetCapacity(c) ==
    /\ Each("SetCapacity", c)
    /\ asked' = [asked EXCEPT !.capacity = c, !.by = "SetCapacity"]

\* last.ok records whether the loader given is one (h) or nil.
RouterOnMiss(h) ==
    /\ ~panicked
    /\ cachelist' = [i \in 1..Len(cachelist) |-> [cachelist[i] EXCEPT !.onMiss = h]]
    /\ purged' = <<>>
    /\ last' = Op("OnMiss", NoKey, NoValue, FALSE, h)
    /\ snapshot' = NoSlice
    /\ UNCHANGED <<list, table, size, capacity, onMiss, panicked, reports,
                   demo, asked, mu, pc>>


\* ---- the accessors of the router ------------------------------------------
\* for idx := range lru.cachelist { total += ... }, over a sequence of what
\* the engines return.
RECURSIVE Sum(_)
Sum(ns) == IF ns = <<>> THEN 0 ELSE Head(ns) + Sum(Tail(ns))

\* A faulty loop: the slices of the shards are put together from the last
\* shard to the first.
RECURSIVE Concat_Reversed(_)
Concat_Reversed(ss) ==
    IF ss = <<>> THEN <<>> ELSE Concat_Reversed(Tail(ss)) \o Head(ss)

\* for idx := range lru.cachelist { all = append(all, tmp...) }
RECURSIVE Concat(_)
Concat(ss) == IF ss = <<>> THEN <<>> ELSE Head(ss) \o Concat(Tail(ss))

\* What Length(), Size(), Capacity() and Stats() of engine s return.
EngineLength(s) == Len(s.list)
EngineSize(s) == s.size
EngineCapacity(s) == s.capacity
EngineStats(s) == <<Len(s.list), s.size, s.capacity>>
\* What Keys(), Values() and Items() of engine s return.
EngineKeys(s) == [i \in 1..Len(s.list) |-> s.list[i].key]
EngineValues(s) == [i \in 1..Len(s.list) |-> s.list[i].value]
EngineItems(s) ==
    [i \in 1..Len(s.list) |-> [Key |-> s.list[i].key, Value |-> s.list[i].value]]

RouterLength == Sum([i \in 1..shardCount |-> EngineLength(cachelist[i])])
RouterSize == Sum([i \in 1..shardCount |-> EngineSize(cachelist[i])])

\* c := lru.cachelist[idx].Size(); capacity += c
RouterCapacity == Sum([i \in 1..shardCount |-> EngineSize(cachelist[i])])
RouterStats ==
    <<Sum([i \in 1..shardCount |-> EngineStats(cachelist[i])[1]]),
      Sum([i \in 1..shardCount |-> EngineStats(cachelist[i])[2]]),
      Sum([i \in 1..shardCount |-> EngineStats(cachelist[i])[3]])>>
RouterKeys == Concat([i \in 1..shardCount |-> EngineKeys(cachelist[i])])
RouterValues == Concat([i \in 1..shardCount |-> EngineValues(cachelist[i])])
RouterItems == Concat([i \in 1..shardCount |-> EngineItems(cachelist[i])])

\* A call of an accessor of the router: it returns what, and the caller
\* keeps it until its next call.
RouterReturns(name, what) ==
    /\ ~panicked
    /\ snapshot' = [of |-> name, slice |-> what]
    /\ purged' = <<>>
    /\ last' = Op(name, NoKey, NoValue, FALSE, TRUE)
    /\ UNCHANGED <<list, table, size, capacity, onMiss, panicked, reports,
                   demo, asked, router>>

CallRouterLength == RouterReturns("Length", RouterLength)
CallRouterSize == RouterReturns("Size", RouterSize)
CallRouterCapacity == RouterReturns("Capacity", RouterCapacity)
CallRouterStats == RouterReturns("Stats", RouterStats)
CallRouterKeys == RouterReturns("Keys", RouterKeys)
CallRouterValues == RouterReturns("Values", RouterValues)
CallRouterItems == RouterReturns("Items", RouterItems)

\* ---- NewShardLRUCacheKeyUint64, called by the one caller ------------------
InitRouter ==
    /\ list = <<>>
    /\ table = {}
    /\ size = 0
    /\ capacity = 0
    /\ onMiss = FALSE
    /\ purged = <<>>
    /\ last = [op |-> "New", k |-> NoKey, v |-> NoValue, hit |-> FALSE,
               ok |-> FALSE, again |-> FALSE]
    /\ panicked = FALSE
    /\ reports = [x \in ValueIds |-> ValueSize(x)]
    /\ demo = NoDemo
    /\ snapshot = NoSlice
    /\ \E count \in ShardCounts, c \in RouterCapacities :
           /\ asked = [shardCount |-> count, capacity |-> c, by |-> "New"]
           /\ cachelist = NewShardLRUCacheKeyUint64(count, c)
    /\ mu = [e \in 1..Len(cachelist) |-> 0]
    /\ pc = <<>>

NextRouter ==
    \/ \E k \in KeyIds : RouterGet(k)
    \/ \E k \in KeyIds, v \in RouterInputs : RouterSet(k, v)
    \/ \E k \in KeyIds, v \in RouterInputs : RouterSetIfAbsent(k, v)
    \/ \E k \in KeyIds : RouterDelete(k)
    \/ RouterClear
    \/ \E c \in RouterCapacities : RouterSetCapacity(c)
    \/ \E h \in BOOLEAN : RouterOnMiss(h)
    \/ CallRouterLength
    \/ CallRouterSize
    \/ CallRouterCapacity
    \/ CallRouterStats
    \/ CallRouterKeys
    \/ CallRouterValues
    \/ CallRouterItems

SpecRouter == InitRouter /\ [][NextRouter]_vars


\* ==========================================================================
\* ---- auxiliary definitions of the properties about the router -------------
Abs(a) == IF a < 0 THEN 0 - a ELSE a
\* c div n: the integer q with q * n between 0 and c and less than n away
\* from c.
Div(c, n) ==
    CHOOSE q \in (0 - Abs(c))..Abs(c) :
        /\ Abs(q * n) <= Abs(c)
        /\ Abs(c - q * n) < n
        /\ (c >= 0 => q >= 0) /\ (c <= 0 => q <= 0)
CapacityOf(i) == cachelist[i].capacity

\* ==========================================================================
\* C24: NewShardLRUCacheKeyUint64(shardCount, capacity) makes n shards,
\* n = shardCount if shardCount >= 1 and 1 otherwise; each shard but the last
\* has capacity (capacity div n), the last one that plus the remainder
\* capacity - n * (capacity div n), and the capacities add up to capacity.
\* Stated of every state of a router whose SetCapacity has not been called.
C24_Split ==
    asked.by = "New" =>
        LET n == IF asked.shardCount >= 1 THEN asked.shardCount ELSE 1
            c == asked.capacity
        IN  /\ Len(cachelist) = n
            /\ \A i \in 1..(n - 1) : CapacityOf(i) = Div(c, n)
            /\ CapacityOf(n) = Div(c, n) + (c - n * Div(c, n))
            /\ Sum([i \in 1..n |-> CapacityOf(i)]) = c

\* The constructor has split capacity 3 over two shards.
C24_Witness ==
    /\ last.op = "New"
    /\ asked = [shardCount |-> 2, capacity |-> 3, by |-> "New"]
    /\ Len(cachelist) = 2
    /\ CapacityOf(1) = 1 /\ CapacityOf(2) = 2


\* ==========================================================================
\* C25: Get, Set, SetIfAbsent and Delete of the router on key k work on one
\* engine only, the one the hash of k selects (here k modulo the number of
\* shards), whatever the method: the other engines are left as they are; in
\* every state a key is held by no engine but that one; so a Get of k finds
\* k exactly when some engine holds it and returns the value held, which
\* after a Set(k, v) that kept k is v, and a Delete of k reports true
\* exactly when some engine held k and leaves k held by none.
Hashed(k) == (k % Len(cachelist)) + 1
Holders(cl, k) == {e \in 1..Len(cl) : k \in cl[e].table}
ValueHeld(cl, k) ==
    LET e == CHOOSE h \in Holders(cl, k) : TRUE IN EntryOf(cl[e].list, k).value

C25_OneShard ==
    /\ last'.op \in SingleKey =>
          \A e \in 1..Len(cachelist) :
              e # Hashed(last'.k) => cachelist'[e] = cachelist[e]
    /\ \A k \in KeyIds : Holders(cachelist', k) \subseteq {Hashed(k)}
    /\ last'.op = "Get" =>
          /\ last'.hit = (Holders(cachelist, last'.k) # {})
          /\ last'.hit => (last'.ok /\ last'.v = ValueHeld(cachelist, last'.k))
    /\ last'.op = "Set" =>
          (Holders(cachelist', last'.k) # {}
              => ValueHeld(cachelist', last'.k) = last'.v)
    /\ last'.op = "Delete" =>
          /\ last'.ok = (Holders(cachelist, last'.k) # {})
          /\ Holders(cachelist', last'.k) = {}

C25_Routing == [][C25_OneShard]_vars

\* A Get of the router has found a key of the second of two engines that
\* both hold entries.
C25_Witness ==
    /\ last.op = "Get" /\ last.hit /\ last.ok
    /\ Len(cachelist) = 2
    /\ cachelist[1].list # <<>>
    /\ last.k \in cachelist[2].table
    /\ cachelist[2].list[1].key = last.k


\* ==========================================================================
\* C26: Capacity() of the router returns the sum of the capacities of its
\* engines: called with no other method running, it returns the capacity
\* last given to the constructor or to SetCapacity, which is also the
\* capacity that Stats() returns, however many entries are held.
C26_Capacity ==
    (last.op = "Capacity" /\ snapshot.of = "Capacity") =>
        /\ snapshot.slice = Sum([i \in 1..shardCount |-> EngineCapacity(cachelist[i])])
        /\ snapshot.slice = asked.capacity
        /\ snapshot.slice = RouterStats[3]


\* ---- a router filled by Set of distinct keys --------------------------------
\* The caller of the router scenario: it builds a router with a capacity of
\* 0 or more and no loader, and then only calls Set, each time with a key it
\* has not used yet and a value of size 1. demo.sets is the keys it has used.
FillKeys == 1..(NumKeys + 1)
FillCapacities == 0..(MaxCap + MaxShards)

InitFill ==
    /\ list = <<>>
    /\ table = {}
    /\ size = 0
    /\ capacity = 0
    /\ onMiss = FALSE
    /\ purged = <<>>
    /\ last = [op |-> "New", k |-> NoKey, v |-> NoValue, hit |-> FALSE,
               ok |-> FALSE, again |-> FALSE]
    /\ panicked = FALSE
    /\ reports = [x \in ValueIds |-> ValueSize(x)]
    /\ demo = NoDemo
    /\ snapshot = NoSlice
    /\ \E count \in ShardCounts, c \in FillCapacities :
           /\ asked = [shardCount |-> count, capacity |-> c, by |-> "New"]
           /\ cachelist = NewShardLRUCacheKeyUint64(count, c)
    /\ mu = [e \in 1..Len(cachelist) |-> 0]
    /\ pc = <<>>

FillSet(k) ==
    /\ k \notin {demo.sets[i] : i \in 1..Len(demo.sets)}
    /\ Forward("Set", k, DemoValue, FALSE, TRUE)
    /\ demo' = [demo EXCEPT !.sets = Append(@, k)]

NextFill == \E k \in FillKeys : FillSet(k)

SpecFill == InitFill /\ [][NextFill]_vars

Min(a, b) == IF a <= b THEN a ELSE b
\* The capacity that a total of c gives shard i of n.
Allotted(c, n, i) == IF i = n THEN c - (n - 1) * Div(c, n) ELSE Div(c, n)
\* How many of the keys set so far belong to shard i.
Received(i) == Cardinality({j \in 1..Len(demo.sets) : Hashed(demo.sets[j]) = i})

\* ==========================================================================
\* C27 (as stated): in a router of capacity c >= 0 with no loader, after Set
\* of N >= c distinct keys with values of size 1, Length() is min(N, c) and
\* no shard's Size() is above the capacity allotted to the shard.
C27_AsClaimed ==
    (last.op = "Set" /\ Len(demo.sets) >= asked.capacity) =>
        /\ RouterLength = Min(Len(demo.sets), asked.capacity)
        /\ \A i \in 1..shardCount :
               EngineSize(cachelist[i]) <= Allotted(asked.capacity, shardCount, i)

\* C27 (amended): in a router of capacity c >= 0 with no loader, after Set
\* of N distinct keys with values of size 1, every shard holds as many
\* entries as it received keys, up to its allotted capacity; Length() is the
\* sum of these numbers, which is at most min(N, c) and is c when every
\* shard received at least as many keys as its capacity; no shard's Size()
\* is above the capacity allotted to the shard.
C27_Filled ==
    LET n == shardCount
        c == asked.capacity
        held == [i \in 1..n |-> Min(Received(i), Allotted(c, n, i))]
    IN  /\ \A i \in 1..n : EngineLength(cachelist[i]) = held[i]
        /\ RouterLength = Sum(held)
        /\ RouterLength <= Min(Len(demo.sets), c)
        /\ (\A i \in 1..n : Received(i) >= Allotted(c, n, i)) => RouterLength = c
        /\ \A i \in 1..n : EngineSize(cachelist[i]) <= Allotted(c, n, i)
        /\ RouterSize = RouterLength

\* Three keys were set in a router of capacity 3 over two shards, two of
\* them in the first shard, whose capacity is 1: Length() is 2, not 3.
C27_Witness ==
    /\ last.op = "Set"
    /\ asked.capacity = 3 /\ shardCount = 2
    /\ Len(demo.sets) = 3
    /\ Received(1) = 2 /\ Received(2) = 1
    /\ RouterLength = 2


\* ---- Length() of the router while another thread writes ---------------------
\* Two threads share a router with a capacity of 0 or more.  The reader only
\* calls Length() of the router.  The writer keeps at most one entry in the
\* router: it calls Set, with a value of size 1, only when the router holds
\* nothing, and Delete.
Reader == 1
Writer == 2
TornCapacities == 0..(MaxCap + 1)

InitTorn ==
    /\ list = <<>>
    /\ table = {}
    /\ size = 0
    /\ capacity = 0
    /\ onMiss = FALSE
    /\ purged = <<>>
    /\ last = [op |-> "New", k |-> NoKey, v |-> NoValue, hit |-> FALSE,
               ok |-> FALSE, again |-> FALSE]
    /\ panicked = FALSE
    /\ reports = [x \in ValueIds |-> ValueSize(x)]
    /\ demo = NoDemo
    /\ asked = NoRouter
    /\ snapshot = NoSlice
    /\ \E count \in ShardCounts, c \in TornCapacities :
           cachelist = NewShardLRUCacheKeyUint64(count, c)
    /\ mu = [e \in 1..Len(cachelist) |-> 0]
    /\ pc = [t \in Threads |-> Idle]

WriterSet(k) ==
    /\ \A e \in 1..shardCount : cachelist[e].list = <<>>
    /\ ShardSet(Writer, k, DemoValue)

NextTorn ==
    \/ ShardLength(Reader)
    \/ Lock(Reader)
    \/ LengthLocked(Reader)
    \/ Unlock(Reader)
    \/ \E k \in KeyIds : WriterSet(k)
    \/ \E k \in KeyIds : ShardDelete(Writer, k)
    \/ setLocked(Writer)
    \/ checkCapacityLoop(Writer)
    \/ DeleteLocked(Writer)
    \/ OnPurgeReturns(Writer)
    \/ Unlock(Writer)

SpecTorn == InitTorn /\ [][NextTorn]_vars

\* The number of entries the router holds at this instant.
TrueLength == Sum([e \in 1..shardCount |-> Len(cachelist[e].list)])
\* Length() of the reader is about to return pc[Reader].n.
Returning ==
    /\ pc[Reader].op = "Length"
    /\ pc[Reader].at = "unlock"
    /\ pc[Reader].e = shardCount

\* ==========================================================================
\* C28: Length() of the router is not atomic across the shards.  Each shard
\* is read while the reader holds its lock and no other call is inside it,
\* and what is added to the sum is the length of the shard at that instant;
\* yet with a writer that never has more than one entry in the router, so
\* that the router holds at most one entry at every instant, Length() can
\* return 2 (C28_Witness), a number of entries the router never held.
C28_ReadsOfShards ==
    pc[Reader].at = "locked" /\ pc'[Reader].at = "unlock" =>
        LET e == pc[Reader].e IN
        /\ mu[e] = Reader
        /\ ~Inside(Writer, e)
        /\ pc'[Reader].n = pc[Reader].n + Len(cachelist[e].list)
        /\ pc'[Reader].n = pc[Reader].n + Len(cachelist'[e].list)

C28_AtMostOne == TrueLength <= 1

C28_Torn == [][C28_ReadsOfShards]_vars /\ []C28_AtMostOne

C28_Witness ==
    /\ Returning
    /\ pc[Reader].n = 2
    /\ TrueLength <= 1


\* ---- a callback that fails --------------------------------------------------
\* One thread calls the methods of one engine, and the code of the caller
\* that the engine runs may panic: the loader, OnPurge of a value, Size() of
\* a value.  The panic unwinds the method, whose deferred lru.mu.Unlock()
\* runs, and the caller recovers it and goes on calling the engine.
Caller == 1

\* The method at position p is about to call getSize(value) on a value that
\* implements SizeAware: the first statement of addNew and of updateInplace.
AsksSize(p, s) ==
    /\ SizeAware(p.v)
    /\ \/ p.at = "locked" /\ p.op = "Set"
       \/ p.at = "set"
       \/ p.at = "locked" /\ p.op = "SetIfAbsent" /\ p.k \notin s.table

\* The callback panics.  The position of the thread keeps what the method
\* was doing, with ret the position of the call that failed.
Fails(t) ==
    LET p == pc[t]
        s == cachelist[p.e]
    IN  /\ ~panicked
        /\ p.at \in UserCode \/ AsksSize(p, s)
        /\ mu' = [mu EXCEPT ![p.e] = 0]
        /\ pc' = [pc EXCEPT ![t] = [p EXCEPT !.at = "idle", !.ret = p.at]]
        /\ UNCHANGED <<cachelist, panicked, engine>>

InitFaults == InitThreads

NextFaults == Step(Caller) \/ Fails(Caller)

SpecFaults == InitFaults /\ [][NextFaults]_vars

\* The index and the list of engine s hold the same keys, each once, and the
\* size of s is the sum of the sizes recorded in the entries.
Consistent(s) ==
    /\ s.table = KeysIn(s.list)
    /\ \A i, j \in 1..Len(s.list) : s.list[i].key = s.list[j].key => i = j
    /\ s.size = SumSizes(s.list)

\* ==========================================================================
\* C29: wherever Set, SetIfAbsent, Get, Delete, Clear or SetCapacity call the
\* loader, OnPurge or Size(), the index and the list of the engine are in
\* bijection and its size is the sum of the recorded sizes; so when the
\* callback fails and the failure propagates, the engine is left in such a
\* state, with its lock released.
C29_Consistent ==
    \A t \in Threads :
        LET p == pc[t] IN
        /\ (p.at # "idle" /\ (p.at \in UserCode \/ AsksSize(p, cachelist[p.e])))
              => Consistent(cachelist[p.e])
        /\ (p.at = "idle" /\ p.ret # "none")
              => (Consistent(cachelist[p.e]) /\ mu[p.e] = 0)

\* OnPurge of an entry evicted by SetCapacity has failed: the entry is gone,
\* the engine is still over its capacity, and the lock is free.
C29_Witness ==
    LET p == pc[Caller] IN
    /\ p.at = "idle" /\ p.ret = "purge"
    /\ p.op = "SetCapacity" /\ p.why = PURGE_REASON_CACHEFULL
    /\ cachelist[1].list # p.snap.list
    /\ cachelist[1].size > cachelist[1].capacity
    /\ mu[1] = 0


\* ---- auxiliary definitions of the properties about the whole router --------
\* The elements of the lists of the shards, as <<shard, place in its list>>.
Places ==
    {q \in (1..shardCount) \X (1..NumKeys) : q[2] <= Len(cachelist[q[1]].list)}
\* The place of element q when the shards are taken in index order and
\* each list from its front.
Rank(q) ==
    Cardinality({r \in Places : r[1] < q[1] \/ (r[1] = q[1] /\ r[2] <= q[2])})
ElementAt(q) == cachelist[q[1]].list[q[2]]
RECURSIVE Total(_, _)
Total(f, n) == IF n = 0 THEN 0 ELSE Total(f, n - 1) + f[n]

\* ==========================================================================
\* C30: with no other call running, Length(), Size() and Stats() of the
\* router return the sums over the shards of their lengths, sizes and
\* capacities; Keys(), Values() and Items() return the entries of the
\* shards in index order, each shard from its most recently used entry to
\* its least recently used one; Clear() empties every shard and changes
\* nothing else; OnMiss(h) makes h the loader of every shard and changes
\* nothing else.
C30_Accessors ==
    LET n == shardCount
        length == Cardinality(Places)
        held == Total([e \in 1..n |-> cachelist[e].size], n)
        most == Total([e \in 1..n |-> cachelist[e].capacity], n)
        what == snapshot.slice
    IN  /\ (last.op = "Length" /\ snapshot.of = "Length") => what = length
        /\ (last.op = "Size" /\ snapshot.of = "Size") => what = held
        /\ (last.op = "Stats" /\ snapshot.of = "Stats") => what = <<length, held, most>>
        /\ (last.op = "Keys" /\ snapshot.of = "Keys") =>
              /\ Len(what) = length
              /\ \A q \in Places : what[Rank(q)] = ElementAt(q).key
        /\ (last.op = "Values" /\ snapshot.of = "Values") =>
              /\ Len(what) = length
              /\ \A q \in Places : what[Rank(q)] = ElementAt(q).value
        /\ (last.op = "Items" /\ snapshot.of = "Items") =>
              /\ Len(what) = length
              /\ \A q \in Places :
                    what[Rank(q)] = [Key |-> ElementAt(q).key,
                                     Value |-> ElementAt(q).value]

C30_Clear ==
    last'.op = "Clear" =>
        /\ Len(cachelist') = Len(cachelist)
        /\ \A e \in 1..Len(cachelist) :
              cachelist'[e] = [cachelist[e] EXCEPT !.list = <<>>, !.table = {},
                                                   !.size = 0]

C30_OnMiss ==
    last'.op = "OnMiss" =>
        /\ Len(cachelist') = Len(cachelist)
        /\ \A e \in 1..Len(cachelist) :
              cachelist'[e] = [cachelist[e] EXCEPT !.onMiss = last'.ok]

C31_SetCapacity ==
    [][last'.op = "SetCapacity" =>
          LET n == Len(cachelist)
              c == asked'.capacity
              removed == [i \in 1..n |->
                             SubSeq(cachelist[i].list,
                                    Len(cachelist'[i].list) + 1,
                                    Len(cachelist[i].list))]
              notes == [i \in 1..n |->
                           [j \in 1..Len(removed[i]) |->
                               Note(Reverse(removed[i])[j].value,
                                    PURGE_REASON_CACHEFULL)]]
          IN  /\ ~panicked'
              /\ Len(cachelist') = n
              /\ \A i \in 1..n :
                    /\ cachelist'[i].capacity = Allotted(c, n, i)
                    /\ cachelist'[i].size <= cachelist'[i].capacity
                    /\ IsPrefix(cachelist'[i].list, cachelist[i].list)
                    /\ cachelist'[i].table = KeysIn(cachelist'[i].list)
                    /\ cachelist'[i].size = SumSizes(cachelist'[i].list)
                    /\ cachelist'[i].onMiss = cachelist[i].onMiss
              /\ Total([i \in 1..n |-> cachelist'[i].capacity], n) = c
              /\ purged' = Concat(notes)]_vars


\* ---- user code that calls the engine that is running it ---------------------
\* Two threads share a router with a capacity of 0 or more.  The first one
\* calls Set, Delete, Get, Length and OnMiss, and OnPurge of its values and
\* its loader may call a method of the engine that is running them; the
\* second one only calls Set.
Other == 2

\* OnPurge or the loader, run by thread t inside a method of engine
\* pc[t].e, calls the method op of that engine: the call is at its first
\* statement, lru.mu.Lock().
Reenter(t, op, k) ==
    LET p == pc[t] IN
    /\ ~panicked
    /\ p.at \in UserCode
    /\ pc' = [pc EXCEPT ![t] =
                 [Idle EXCEPT !.at = "lock", !.op = op, !.e = p.e,
                              !.k = IF op = "Length" THEN NoKey ELSE k,
                              !.v = IF op = "Set" THEN DemoValue ELSE NoValue,
                              !.outer = <<p>>]]
    /\ UNCHANGED <<cachelist, mu, panicked, engine>>

NextReentry ==
    \/ \E k \in KeyIds : ShardSet(Caller, k, DemoValue)
    \/ \E k \in KeyIds : ShardDelete(Caller, k)
    \/ \E k \in KeyIds : ShardGet(Caller, k)
    \/ ShardLength(Caller)
    \/ \E h \in BOOLEAN : ShardOnMiss(Caller, h)
    \/ OnMissWrite(Caller)
    \/ Lock(Caller)
    \/ GetLocked(Caller)
    \/ CallOnMiss(Caller)
    \/ \E ok \in BOOLEAN : OnMissReturns(Caller, DemoValue, ok)
    \/ setLocked(Caller)
    \/ updateInplaceRest(Caller)
    \/ checkCapacityLoop(Caller)
    \/ DeleteLocked(Caller)
    \/ LengthLocked(Caller)
    \/ OnPurgeReturns(Caller)
    \/ Unlock(Caller)
    \/ \E op \in {"Get", "Set", "Delete", "Length"}, k \in KeyIds : Reenter(Caller, op, k)
    \/ \E k \in KeyIds : ShardSet(Other, k, DemoValue)
    \/ setLocked(Other)
    \/ updateInplaceRest(Other)
    \/ checkCapacityLoop(Other)
    \/ OnPurgeReturns(Other)
    \/ Unlock(Other)

SpecReentry == InitTorn /\ [][NextReentry]_vars


\* Thread t is in user code that has called a method of the engine whose
\* method is running that code, and the call is waiting for the lock.
Waits(t) == pc[t].at = "lock" /\ pc[t].outer # <<>>

\* ==========================================================================
\* C32: when OnPurge or the loader, run inside a method of an engine, calls
\* a method of that engine that takes the lock (Get, Set, Delete, Length),
\* the thread itself holds the lock the call waits for: from then on the
\* call never gets the lock, the method that ran the user code never goes
\* on, the lock is never released, the entries of the engine never change
\* and no other thread ever gets into a method of that engine.
C32_Held ==
    \A t \in Threads :
        Waits(t) =>
            /\ mu[pc[t].e] = t
            /\ pc[t].outer[1].at \in UserCode
            /\ pc[t].outer[1].e = pc[t].e
            /\ \A u \in Threads \ {t} : ~Inside(u, pc[t].e)

C32_Forever ==
    \A t \in Threads :
        Waits(t) =>
            LET e == pc[t].e IN
            /\ pc'[t] = pc[t]
            /\ mu'[e] = t
            /\ cachelist'[e] = [cachelist[e] EXCEPT !.onMiss = cachelist'[e].onMiss]
            /\ \A u \in Threads \ {t} : ~(pc'[u].e = e /\ pc'[u].at \in Section)

C32_NoReentrancy == [][C32_Forever]_vars /\ []C32_Held

\* OnPurge of a deleted value has called Length() of the engine, the only
\* one of the router, while the other thread is in no call.
C32_Witness ==
    /\ Waits(Caller)
    /\ pc[Caller].op = "Length"
    /\ pc[Caller].outer[1].op = "Delete" /\ pc[Caller].outer[1].at = "purge"
    /\ shardCount = 1
    /\ pc[Other].at = "idle"


\* ---- threads that wait for the lock, under fair scheduling ------------------
\* Two threads call Set, Delete and SetCapacity of one engine.  A call
\* starts at lru.mu.Lock() and waits there.  OnPurge always returns and
\* calls nothing.  A thread that can take a step of its method takes it
\* (weak fairness), and a thread that finds the lock free again and again
\* gets it (strong fairness: the sync.Mutex hands the lock to a waiter that
\* has been starved).
LiveThreads == {Caller, Other}

Call(t, op, k, c) ==
    /\ ~panicked
    /\ pc[t].at = "idle"
    /\ pc' = [pc EXCEPT ![t] =
                 [Idle EXCEPT !.at = "lock", !.op = op, !.e = 1,
                              !.k = IF op = "SetCapacity" THEN NoKey ELSE k,
                              !.v = IF op = "Set" THEN DemoValue ELSE NoValue,
                              !.c = IF op = "SetCapacity" THEN c ELSE 0]]
    /\ UNCHANGED <<cachelist, mu, panicked, engine>>

\* The steps of the method thread t is in, once it has the lock.
Proceeds(t) ==
    \/ setLocked(t)
    \/ updateInplaceRest(t)
    \/ checkCapacityLoop(t)
    \/ DeleteLocked(t)
    \/ SetCapacityLocked(t)
    \/ OnPurgeReturns(t)
    \/ Unlock(t)

NextLive ==
    \E t \in LiveThreads :
        \/ \E op \in {"Set", "Delete", "SetCapacity"}, k \in KeyIds,
                 c \in Capacities : Call(t, op, k, c)
        \/ Lock(t)
        \/ Proceeds(t)

SpecLive ==
    /\ InitThreads
    /\ [][NextLive]_vars
    /\ \A t \in LiveThreads : WF_vars(Proceeds(t)) /\ SF_vars(Lock(t))


\* ==========================================================================
\* C33: with callbacks that return and call nothing, a method that has the
\* lock runs to its end and releases the lock: every turn of the loop of
\* checkCapacity removes one entry or ends the loop, so the loop makes no
\* more turns than there are entries, and no turn faults; a thread that is
\* in a method gets out of it, and a thread that waits for the lock gets it.
C33_LoopTurn ==
    \A t \in LiveThreads :
        (pc[t].at = "evict" /\ pc'[t] # pc[t]) =>
            /\ ~panicked'
            /\ \/ pc'[t].at = "unlock" /\ cachelist' = cachelist
               \/ Len(cachelist'[1].list) = Len(cachelist[1].list) - 1

C33_Completes ==
    /\ [][C33_LoopTurn]_vars
    /\ \A t \in LiveThreads : (pc[t].at \in Section) ~> (pc[t].at = "idle")
    /\ \A t \in LiveThreads : (pc[t].at = "lock") ~> (pc[t].at = "locked")


\* ---- auxiliary definitions of the properties about eviction ----------------
\* The step is an operation that runs checkCapacity.
Enforces == Stores \/ last'.op = "SetCapacity"
\* The recency order the operation hands to checkCapacity.
Handed == IF Stores THEN Stored ELSE list
\* The last j entries of list l.
Suffix(l, j) == SubSeq(l, Len(l) - j + 1, Len(l))
\* Removing the last j entries of l brings the size within capacity c.
Enough(l, j, c) == SumSizes(l) - SumSizes(Suffix(l, j)) <= c

\* ==========================================================================
\* C34: an operation evicts only while size > capacity: the entries it
\* evicts are the shortest suffix of the recency order, taken from the LRU
\* end, whose removal brings the size within the capacity, each notified
\* with CACHEFULL; so when the size is within the capacity without any
\* removal, nothing is evicted.
C34_Minimal ==
    [][Enforces =>
          LET n == Len(Handed) - Len(list')
              gone == Suffix(Handed, n)
          IN  /\ ~panicked'
              /\ IsPrefix(list', Handed)
              /\ Enough(Handed, n, capacity')
              /\ \A j \in 0..(n - 1) : ~Enough(Handed, j, capacity')
              /\ Enough(Handed, 0, capacity') => list' = Handed
              /\ Calls(purged', PURGE_REASON_CACHEFULL)
                   = [i \in 1..n |-> Note(Reverse(gone)[i].value,
                                          PURGE_REASON_CACHEFULL)]
              /\ size' = SumSizes(list')]_vars


\* ==========================================================================
\* C35: in an engine whose entries have sizes of 0 or more, Set(k, v) of a
\* value v with 0 <= size of v <= capacity, k indexed or not, returns with k
\* indexed once and its entry, holding v with the size of v, at the MRU
\* position: the Set does not evict what it has just written.
C35_KeepsWritten ==
    [][(/\ last'.op = "Set"
        /\ 0 <= getSize(last'.v) /\ getSize(last'.v) <= capacity
        /\ \A i \in 1..Len(list) : list[i].size >= 0) =>
          /\ ~panicked'
          /\ list' # <<>>
          /\ list'[1] = [key |-> last'.k, value |-> last'.v,
                         size |-> getSize(last'.v)]
          /\ last'.k \in table'
          /\ \A i \in 2..Len(list') : list'[i].key # last'.k]_vars

\* A Set of a key that was not indexed, with a value as large as the
\* capacity, has evicted the entry held before and kept its own.
C35_Witness ==
    /\ last.op = "Set" /\ ~last.hit
    /\ getSize(last.v) = capacity /\ capacity >= 1
    /\ Len(purged) = 1 /\ purged[1].why = PURGE_REASON_CACHEFULL
    /\ Len(list) = 1
    /\ list[1].key = last.k /\ list[1].value = last.v


\* ==========================================================================
\* C36 (as claimed): when Get(k) has returned found = true, by a hit or
\* through the loader, k is indexed and its entry, holding the value
\* returned, is at the MRU position.
C36_AsClaimed ==
    (last.op = "Get" /\ last.ok /\ ~panicked) =>
        /\ last.k \in table
        /\ list # <<>>
        /\ list[1].key = last.k /\ list[1].value = last.v

\* C36 (amended): the same for a hit, and for a value loaded through the
\* loader when its size does not exceed the capacity.
C36_FoundIsHeld ==
    (/\ last.op = "Get" /\ last.ok /\ ~panicked
     /\ last.hit \/ getSize(last.v) <= capacity) =>
        /\ last.k \in table
        /\ list # <<>>
        /\ list[1].key = last.k /\ list[1].value = last.v
        /\ \A i \in 2..Len(list) : list[i].key # last.k

\* A Get has loaded a value that fits, evicting the entry held before.
C36_Witness ==
    /\ last.op = "Get" /\ ~last.hit /\ last.ok
    /\ purged # <<>> /\ purged[1].why = PURGE_REASON_CACHEFULL
    /\ Len(list) = 1
    /\ list[1].key = last.k /\ list[1].value = last.v
    /\ size = capacity


\* ==========================================================================
\* C37: every operation keeps the relative recency order of the entries it
\* neither touches nor removes: the entries of the keys other than the
\* operation's key that are still held are the same entries in the same
\* order, and the key of a Get, Set or SetIfAbsent that is held afterwards
\* is at the front.
C37_KeepsOrder ==
    [][LET k == last'.k
           kept == KeysIn(list')
       IN  /\ Without(list', k) =
                  SelectSeq(Without(list, k), LAMBDA e : e.key \in kept)
           /\ (k \notin KeysIn(list) /\ k \in kept) =>
                  /\ last'.op \in {"Get", "Set", "SetIfAbsent"}
                  /\ list'[1].key = k
           /\ (k \in KeysIn(list) /\ k \in kept) =>
                  \/ list'[1].key = k
                  \/ list' = list
           /\ last'.op \in {"Get", "Set", "SetIfAbsent"} /\ k \in kept =>
                  list'[1].key = k]_vars

\* A Set has updated and promoted a key held with two others, and its
\* larger value has evicted the last of them and kept the other.
C37_Witness ==
    /\ last.op = "Set" /\ last.hit
    /\ Len(Calls(purged, PURGE_REASON_CACHEFULL)) = 1
    /\ Len(list) = 2
    /\ list[1].key = last.k


\* ==========================================================================
\* C38: Get(k) on an indexed key changes nothing but the position of k: it
\* is a hit that returns the value held, the loader is not asked, the keys,
\* every key's value and recorded size, the running size and the capacity
\* are unchanged, no purge call is made, no entry is evicted, and the entry
\* of k is at the front.
C38_GetHitFrame ==
    [][(last'.op = "Get" /\ last'.k \in table) =>
          /\ last'.hit /\ last'.ok
          /\ last'.v = EntryOf(list, last'.k).value
          /\ KeysIn(list') = KeysIn(list)
          /\ Len(list') = Len(list)
          /\ \A key \in KeysIn(list) : EntryOf(list', key) = EntryOf(list, key)
          /\ list'[1].key = last'.k
          /\ table' = table
          /\ size' = size
          /\ capacity' = capacity
          /\ onMiss' = onMiss
          /\ purged' = <<>>
          /\ ~panicked']_vars

\* A Get has hit one of three keys, with a loader registered and the cache
\* filled to its capacity.
C38_Witness ==
    /\ last.op = "Get" /\ last.hit
    /\ onMiss
    /\ Len(list) = 3
    /\ list[1].key = last.k
    /\ size = capacity


\* ==========================================================================
\* ---- the router called with keys of any ToSum() ---------------------------
\* ToSum() returns an int; a key of the model below zero is a key whose
\* ToSum() is negative.
SumKeys == ((0 - NegSums)..NumKeys) \ {NoKey}

\* lru.cachelist[idx] of GetShard is inside the slice.
Reaches(k) == GetShard(k) \in 1..shardCount

\* lru.cachelist[idx] with idx outside the slice: the index expression
\* panics before any engine is called.
OutOfRange(op, k, v) ==
    /\ ~panicked
    /\ ~Reaches(k)
    /\ panicked' = TRUE
    /\ purged' = <<>>
    /\ last' = Op(op, k, v, FALSE, FALSE)
    /\ snapshot' = NoSlice
    /\ UNCHANGED <<list, table, size, capacity, onMiss, reports, demo, asked,
                   router>>

SumGet(k) == IF Reaches(k) THEN RouterGet(k) ELSE OutOfRange("Get", k, NoValue)
SumSet(k, value) ==
    IF Reaches(k) THEN RouterSet(k, value) ELSE OutOfRange("Set", k, value)
SumSetIfAbsent(k, value) ==
    IF Reaches(k) THEN RouterSetIfAbsent(k, value)
    ELSE OutOfRange("SetIfAbsent", k, value)
SumDelete(k) ==
    IF Reaches(k) THEN RouterDelete(k) ELSE OutOfRange("Delete", k, NoValue)


NextSums ==
    \/ \E k \in SumKeys : SumGet(k)
    \/ \E k \in SumKeys, v \in RouterInputs : SumSet(k, v)
    \/ \E k \in SumKeys, v \in RouterInputs : SumSetIfAbsent(k, v)
    \/ \E k \in SumKeys : SumDelete(k)
    \/ \E h \in BOOLEAN : RouterOnMiss(h)

SpecSums == InitRouter /\ [][NextSums]_vars

\* C39: for every key, whatever its ToSum(), negative ones included, the
\* index that GetShard selects is inside cachelist, so every Get, Set,
\* SetIfAbsent and Delete of the router reaches an existing engine.
C39_InRange ==
    last.op \in SingleKey =>
        /\ GetShard(last.k) - 1 >= 0
        /\ GetShard(last.k) - 1 < shardCount


\* ==========================================================================
\* ---- the router with the order of use of its keys --------------------------
\* The one caller of the router calls Get, Set, SetIfAbsent, Delete and
\* OnMiss.  demo.sets is the keys that were held when its last call began,
\* least recently used first, followed by the key of that call when the
\* call has used it (a Get that found or loaded it, a Set, a SetIfAbsent).
HeldKeys(cl) == UNION {cl[e].table : e \in 1..Len(cl)}

Use(k) ==
    LET others == SelectSeq(demo.sets, LAMBDA x : x \in HeldKeys(cachelist) /\ x # k)
    IN  demo' = [demo EXCEPT !.sets =
                    IF \/ last'.op \in {"Set", "SetIfAbsent"}
                       \/ last'.op = "Get" /\ last'.ok
                    THEN Append(others, k) ELSE others]

UseGet(k) ==
    LET s == cachelist[GetShard(k)] IN
    /\ IF k \in s.table
       THEN Forward("Get", k, s.list[ElementOf(s.list, k)].value, TRUE, TRUE)
       ELSE IF ~s.onMiss
            THEN Forward("Get", k, NoValue, FALSE, FALSE)
            ELSE \E v \in RouterInputs, ok \in BOOLEAN : Forward("Get", k, v, ok, ok)
    /\ Use(k)
UseSet(k, value) == Forward("Set", k, value, FALSE, TRUE) /\ Use(k)
UseSetIfAbsent(k, value) == Forward("SetIfAbsent", k, value, FALSE, TRUE) /\ Use(k)
UseDelete(k) ==
    /\ Forward("Delete", k, NoValue, FALSE, k \in cachelist[GetShard(k)].table)
    /\ Use(k)


NextUse ==
    \/ \E k \in KeyIds : UseGet(k)
    \/ \E k \in KeyIds, v \in RouterInputs : UseSet(k, v)
    \/ \E k \in KeyIds, v \in RouterInputs : UseSetIfAbsent(k, v)
    \/ \E k \in KeyIds : UseDelete(k)
    \/ \E h \in BOOLEAN : RouterOnMiss(h)

SpecUse == InitRouter /\ [][NextUse]_vars

\* The keys held, least recently used first.
ByUse == SelectSeq(demo.sets, LAMBDA x : x \in HeldKeys(cachelist))
\* The keys of sequence q that belong to shard e.
OfShard(q, e) == SelectSeq(q, LAMBDA x : Hashed(x) = e)

\* C40: a Get, Set, SetIfAbsent or Delete of the router on key k changes
\* only the shard selected for k: the list, table, size and capacity of
\* every other shard are unchanged, every key that is no longer held was
\* held by the selected shard, and when the least recently used key of the
\* whole router is in another shard it stays held.  (The order of use of
\* the router agrees with the list of every shard.)
C40_OnlySelected ==
    LET e == Hashed(last'.k) IN
    last'.op \in SingleKey =>
        /\ \A f \in 1..Len(cachelist) : f # e =>
               /\ cachelist'[f].list = cachelist[f].list
               /\ cachelist'[f].table = cachelist[f].table
               /\ cachelist'[f].size = cachelist[f].size
               /\ cachelist'[f].capacity = cachelist[f].capacity
        /\ Len(cachelist') = Len(cachelist)
        /\ HeldKeys(cachelist) \ HeldKeys(cachelist') \subseteq cachelist[e].table
        /\ \A f \in 1..Len(cachelist) :
               OfShard(ByUse, f) =
                   Reverse([i \in 1..Len(cachelist[f].list) |-> cachelist[f].list[i].key])
        /\ (ByUse # <<>> /\ Hashed(ByUse[1]) # e) =>
               ByUse[1] \in cachelist'[Hashed(ByUse[1])].table

=============================================================================
